---- MODULE Spec2Model ----
(***************************************************************************)
(* Model of the radalert client library (jigpu/radalert-py).               *)
(*                                                                         *)
(* The BLE session engine (radalert/ble.py, class RadAlertLE) is modelled  *)
(* at the level of the bytes of its receive buffer: packets are sequences  *)
(* of byte values 0..255, decoded the way struct.unpack and the validators *)
(* of the source decode them.  One thread runs spin(); every iteration of  *)
(* the loops of _synchronize, _process and _on_receive is one step of that *)
(* thread, sequenced by pc.                                                *)
(***************************************************************************)
EXTENDS Integers, Sequences, FiniteSets, TLC

(***************************************************************************)
(* Bounds of the model.                                                    *)
(***************************************************************************)
MaxPackets == 4        \* items (packets, garbage bytes) the device sends
MaxFeed == 8           \* the same, where one item arrives per notification
MaxCmd == 1            \* queries enqueued within one receive cycle
MaxReads == 11          \* reads the HID device answers
MaxSize == 3            \* largest capacity of the FIR filter under test
MaxPush == 4            \* values pushed into the FIR filter under test
MaxRecords == 3         \* status records handed to the log backend
MaxGarbage == 2        \* longest run of garbage bytes the link inserts
SplitAt == 8           \* bytes of a packet that end a notification
MaxLive == 3           \* items the device sends where termination is checked
MaxAsync == 2          \* items the device sends before a racing disconnect()
MaxHalfOpen == 1       \* items sent by the last notification without a service

(***************************************************************************)
(* Program constants.                                                      *)
(***************************************************************************)
PACKET_LEN == 16       \* len(self._receive_buffer) < 16 / buffer[0:16]
HID_STATUS_LEN == 15   \* len(self._receive_buffer) != 15
SYNC_TARGET == 5       \* self._sync_count >= 5
QUERY_PERIOD == 5      \* iteration % 5 == 0
ID_MODULUS == 256      \* (self._last_id + 1) % 256
MAX_CPS == 750000      \* 7500 * 100
MAX_CPM == 450000      \* 7500 * 60
MAX_POWER == 5
MAX_ALARM == 235400
MIN_CONV == 200
MAX_CONV == 7000

NoneId == -1           \* Python None in an Optional[int]

KNOWN_MODES == {0, 1, 2, 3, 20, 23}   \* keys of _MODE_DISPLAY_INFO

CMD_QUERY == "?"
CMD_TERMINATE == "Z"
CMD_ACK == "X"

(***************************************************************************)
(* Byte-string helpers (Python slicing and struct little-endian fields).   *)
(***************************************************************************)
Byte == 0..255

\* b[n:] of a Python bytes object
DropBytes(b, n) == IF n >= Len(b) THEN <<>> ELSE SubSeq(b, n + 1, Len(b))

\* b[0:n]
TakeBytes(b, n) == IF n >= Len(b) THEN b ELSE SubSeq(b, 1, n)

\* struct "<H" at 1-based offset i
U16(b, i) == b[i] + 256 * b[i + 1]

\* An unsigned 32-bit number, all of 0 .. 2^32 - 1: the record
\* [hi |-> h, lo |-> l] is the number h * 2^16 + l, with h and l in
\* 0 .. 65535.  W32(n) is the number n written that way.
W32(n) == [hi |-> n \div 65536, lo |-> n % 65536]

\* x > n and x < n for such a number x and an integer n >= 0
W32Above(x, n) ==
    \/ x.hi > n \div 65536
    \/ x.hi = n \div 65536 /\ x.lo > n % 65536
W32Below(x, n) ==
    \/ x.hi < n \div 65536
    \/ x.hi = n \div 65536 /\ x.lo < n % 65536

\* struct "<I" at 1-based offset i
U32(b, i) == [hi |-> U16(b, i + 2), lo |-> U16(b, i)]

\* (x >> n) & m for m = 2^k - 1
Bits(x, shift, mask) == (x \div shift) % (mask + 1)

(***************************************************************************)
(* RadAlertLEStatus.unpack / _validate                                     *)
(***************************************************************************)
\* unpack that reads the low 16 bits of cpm big-endian
StatusUnpackCpmBigEndian(p) ==
    LET status == p[15]
    IN [cps            |-> U32(p, 1),
        value          |-> U32(p, 5),
        mode           |-> U16(p, 9),
        cpm            |-> p[11] * 256 + p[12] + p[13] * 65536,
        unk1           |-> p[14],
        id             |-> p[16],
        power          |-> Bits(status, 1, 7),
        alarm_alerting |-> Bits(status, 8, 1) = 1,
        alarm_set      |-> Bits(status, 16, 1) = 1,
        alarm_silenced |-> Bits(status, 32, 1) = 1,
        unknown        |-> Bits(status, 64, 3)]

StatusUnpack(p) ==
    LET status == p[15]
    IN [cps            |-> U32(p, 1),
        value          |-> U32(p, 5),
        mode           |-> U16(p, 9),
        cpm            |-> U16(p, 11) + p[13] * 65536,
        unk1           |-> p[14],
        id             |-> p[16],
        power          |-> Bits(status, 1, 7),
        alarm_alerting |-> Bits(status, 8, 1) = 1,
        alarm_set      |-> Bits(status, 16, 1) = 1,
        alarm_silenced |-> Bits(status, 32, 1) = 1,
        unknown        |-> Bits(status, 64, 3)]

\* _validate that also rejects a cps equal to the limit
StatusValidateInclusive(d) ==
    /\ ~(~W32Below(d.cps, MAX_CPS) \/ W32Below(d.cps, 0))
    /\ ~(d.cpm > MAX_CPM \/ d.cpm < 0)
    /\ ~(d.power > MAX_POWER \/ d.power < 0)
    /\ ~(d.alarm_alerting /\ ~d.alarm_set)
    /\ ~(d.alarm_silenced /\ ~d.alarm_alerting)
    /\ d.mode \in KNOWN_MODES

\* TRUE iff _validate returns without raising
StatusValidate(d) ==
    /\ ~(W32Above(d.cps, MAX_CPS) \/ W32Below(d.cps, 0))
    /\ ~(d.cpm > MAX_CPM \/ d.cpm < 0)
    /\ ~(d.power > MAX_POWER \/ d.power < 0)
    /\ ~(d.alarm_alerting /\ ~d.alarm_set)
    /\ ~(d.alarm_silenced /\ ~d.alarm_alerting)
    /\ d.mode \in KNOWN_MODES

(***************************************************************************)
(* RadAlertLEQuery.unpack / _validate                                      *)
(***************************************************************************)
QueryUnpack(p) ==
    [unk1  |-> U32(p, 1),
     alarm |-> U16(p, 5),
     unk2  |-> U16(p, 7),
     dead  |-> U16(p, 9),
     conv  |-> U16(p, 11),
     unk4  |-> U32(p, 13)]

\* _validate without the test of the deadtime
QueryValidateNoDeadtime(d) ==
    /\ ~(d.alarm > MAX_ALARM \/ d.alarm < 0)
    /\ ~(d.conv > MAX_CONV \/ d.conv < MIN_CONV)

QueryValidate(d) ==
    /\ ~(d.alarm > MAX_ALARM \/ d.alarm < 0)
    /\ d.dead # 0
    /\ ~(d.conv > MAX_CONV \/ d.conv < MIN_CONV)

\* a test of the first byte of the packet only
IsQueryHeaderFirstByte(p) == p[1] = 255

\* packet[0:4] == b'\xff\xff\xff\xff'
IsQueryHeader(p) == p[1] = 255 /\ p[2] = 255 /\ p[3] = 255 /\ p[4] = 255

\* _decode that builds the status record without validating it
DecodeNoValidate(buf, last) ==
    IF Len(buf) < PACKET_LEN
    THEN [kind |-> "none", id |-> NoneId, last_id |-> last]
    ELSE LET packet == TakeBytes(buf, PACKET_LEN)
         IN IF IsQueryHeader(packet)
            THEN IF QueryValidate(QueryUnpack(packet))
                 THEN [kind |-> "query", id |-> NoneId, last_id |-> last]
                 ELSE [kind |-> "raise", id |-> NoneId, last_id |-> last]
            ELSE LET d == StatusUnpack(packet)
                 IN IF last # NoneId /\ (last + 1) % ID_MODULUS # d.id
                    THEN [kind |-> "raise", id |-> d.id, last_id |-> NoneId]
                    ELSE [kind |-> "status", id |-> d.id, last_id |-> d.id]

\* _decode without the comparison of the id with self._last_id
DecodeNoIdCheck(buf, last) ==
    IF Len(buf) < PACKET_LEN
    THEN [kind |-> "none", id |-> NoneId, last_id |-> last]
    ELSE LET packet == TakeBytes(buf, PACKET_LEN)
         IN IF IsQueryHeader(packet)
            THEN IF QueryValidate(QueryUnpack(packet))
                 THEN [kind |-> "query", id |-> NoneId, last_id |-> last]
                 ELSE [kind |-> "raise", id |-> NoneId, last_id |-> last]
            ELSE LET d == StatusUnpack(packet)
                 IN IF ~StatusValidate(d)
                    THEN [kind |-> "raise", id |-> NoneId, last_id |-> last]
                    ELSE [kind |-> "status", id |-> d.id, last_id |-> d.id]

(***************************************************************************)
(* RadAlertLE._decode: the result of one call on receive buffer buf with   *)
(* self._last_id = last.  kind is "none" (returned None), "query",         *)
(* "status" (a record was returned) or "raise" (an exception left the      *)
(* call); last_id is self._last_id after the call.  The buffer is never    *)
(* changed by _decode.                                                     *)
(***************************************************************************)
Decode(buf, last) ==
    IF Len(buf) < PACKET_LEN
    THEN [kind |-> "none", id |-> NoneId, last_id |-> last]
    ELSE LET packet == TakeBytes(buf, PACKET_LEN)
         IN IF IsQueryHeader(packet)
            THEN IF QueryValidate(QueryUnpack(packet))
                 THEN [kind |-> "query", id |-> NoneId, last_id |-> last]
                 ELSE [kind |-> "raise", id |-> NoneId, last_id |-> last]
            ELSE LET d == StatusUnpack(packet)
                 IN IF ~StatusValidate(d)
                    THEN [kind |-> "raise", id |-> NoneId, last_id |-> last]
                    ELSE IF last # NoneId /\ (last + 1) % ID_MODULUS # d.id
                         THEN [kind |-> "raise", id |-> d.id,
                               last_id |-> NoneId]
                         ELSE [kind |-> "status", id |-> d.id,
                               last_id |-> d.id]

\* RadAlertLE._synchronized
Synchronized(sync) == sync >= SYNC_TARGET

\* _synchronize whose except branch forgets to clear self._last_id
SynchronizeStepKeepId(buf, last, sync) ==
    LET r == Decode(buf, last)
    IN CASE r.kind = "none" ->
              [buf |-> buf, last_id |-> r.last_id, sync |-> sync,
               acks |-> 0, emit |-> <<>>, stop |-> TRUE]
         [] r.kind = "raise" ->
              [buf |-> DropBytes(buf, 1), last_id |-> last, sync |-> 0,
               acks |-> 0, emit |-> <<>>, stop |-> FALSE]
         [] OTHER ->
              [buf |-> buf, last_id |-> r.last_id, sync |-> sync + 1,
               acks |-> 1, emit |-> <<>>, stop |-> FALSE]

\* _synchronize whose except branch leaves the receive buffer as it is
SynchronizeStepKeepByte(buf, last, sync) ==
    LET r == Decode(buf, last)
    IN CASE r.kind = "none" ->
              [buf |-> buf, last_id |-> r.last_id, sync |-> sync,
               acks |-> 0, emit |-> <<>>, stop |-> TRUE]
         [] r.kind = "raise" ->
              [buf |-> buf, last_id |-> NoneId, sync |-> 0,
               acks |-> 0, emit |-> <<>>, stop |-> FALSE]
         [] OTHER ->
              [buf |-> buf, last_id |-> r.last_id, sync |-> sync + 1,
               acks |-> 1, emit |-> <<>>, stop |-> FALSE]

(***************************************************************************)
(* One iteration of the loop body of RadAlertLE._synchronize, entered with *)
(* not self._synchronized().  acks counts the calls of _send_ack, emit is  *)
(* the sequence of records handed to packet_callback, stop says that the   *)
(* loop is left by break.                                                  *)
(***************************************************************************)
SynchronizeStep(buf, last, sync) ==
    LET r == Decode(buf, last)
    IN CASE r.kind = "none" ->
              [buf |-> buf, last_id |-> r.last_id, sync |-> sync,
               acks |-> 0, emit |-> <<>>, stop |-> TRUE]
         [] r.kind = "raise" ->
              [buf |-> DropBytes(buf, 1), last_id |-> NoneId, sync |-> 0,
               acks |-> 0, emit |-> <<>>, stop |-> FALSE]
         [] OTHER ->
              [buf |-> buf, last_id |-> r.last_id, sync |-> sync + 1,
               acks |-> 1, emit |-> <<>>, stop |-> FALSE]

\* _process whose slice [16:] sits in a finally clause: a failed decode
\* consumes the packet too
ProcessStepConsumeOnFail(buf, last, sync) ==
    LET r == Decode(buf, last)
    IN CASE r.kind = "raise" ->
              [buf |-> DropBytes(buf, PACKET_LEN), last_id |-> r.last_id,
               sync |-> 0, acks |-> 1, emit |-> <<>>, stop |-> TRUE]
         [] r.kind = "none" ->
              [buf |-> DropBytes(buf, PACKET_LEN), last_id |-> r.last_id,
               sync |-> sync, acks |-> 1, emit |-> <<>>, stop |-> TRUE]
         [] OTHER ->
              [buf |-> DropBytes(buf, PACKET_LEN), last_id |-> r.last_id,
               sync |-> sync, acks |-> 1,
               emit |-> << [type |-> r.kind, id |-> r.id] >>,
               stop |-> FALSE]

\* _process that leaves its loop after the first packet of a chunk
ProcessStepOnePacket(buf, last, sync) ==
    LET r == Decode(buf, last)
    IN CASE r.kind = "raise" ->
              [buf |-> buf, last_id |-> r.last_id, sync |-> 0,
               acks |-> 1, emit |-> <<>>, stop |-> TRUE]
         [] r.kind = "none" ->
              [buf |-> DropBytes(buf, PACKET_LEN), last_id |-> r.last_id,
               sync |-> sync, acks |-> 1, emit |-> <<>>, stop |-> TRUE]
         [] OTHER ->
              [buf |-> DropBytes(buf, PACKET_LEN), last_id |-> r.last_id,
               sync |-> sync, acks |-> 1,
               emit |-> << [type |-> r.kind, id |-> r.id] >>,
               stop |-> TRUE]

\* _process that acks only when _decode returned a record
ProcessStepAckOnData(buf, last, sync) ==
    LET r == Decode(buf, last)
    IN CASE r.kind = "raise" ->
              [buf |-> buf, last_id |-> r.last_id, sync |-> 0,
               acks |-> 0, emit |-> <<>>, stop |-> TRUE]
         [] r.kind = "none" ->
              [buf |-> DropBytes(buf, PACKET_LEN), last_id |-> r.last_id,
               sync |-> sync, acks |-> 0, emit |-> <<>>, stop |-> TRUE]
         [] OTHER ->
              [buf |-> DropBytes(buf, PACKET_LEN), last_id |-> r.last_id,
               sync |-> sync, acks |-> 1,
               emit |-> << [type |-> r.kind, id |-> r.id] >>,
               stop |-> FALSE]

(***************************************************************************)
(* One iteration of the while loop of RadAlertLE._process, entered with    *)
(* self._synchronized().  The slice [16:] is applied whenever _decode      *)
(* returns, also when it returns None; _send_ack follows in every case.    *)
(***************************************************************************)
ProcessStep(buf, last, sync) ==
    LET r == Decode(buf, last)
    IN CASE r.kind = "raise" ->
              [buf |-> buf, last_id |-> r.last_id, sync |-> 0,
               acks |-> 1, emit |-> <<>>, stop |-> TRUE]
         [] r.kind = "none" ->
              [buf |-> DropBytes(buf, PACKET_LEN), last_id |-> r.last_id,
               sync |-> sync, acks |-> 1, emit |-> <<>>, stop |-> TRUE]
         [] OTHER ->
              [buf |-> DropBytes(buf, PACKET_LEN), last_id |-> r.last_id,
               sync |-> sync, acks |-> 1,
               emit |-> << [type |-> r.kind, id |-> r.id] >>,
               stop |-> FALSE]

\* n copies of the ack command, as _send_ack appends them
Acks(n) == [i \in 1..n |-> CMD_ACK]

\* pop() in place of pop(0): the newest command is sent first
PopCommandLast(cmds) ==
    [message |-> cmds[Len(cmds)], rest |-> SubSeq(cmds, 1, Len(cmds) - 1)]

\* self._command_buffer.pop(0): the command sent next and the rest
PopCommand(cmds) == [message |-> Head(cmds), rest |-> Tail(cmds)]

(***************************************************************************)
(* The peripheral and the link, as the session sees them: what arrives is  *)
(* a chunk made of items.  "S" is a valid status packet carrying the       *)
(* device's next rolling id, "J" a valid status packet sent after one      *)
(* packet was lost (its id is one further), "B" a status packet with an    *)
(* unknown mode, "Q" a query packet and "G" one garbage byte AA.           *)
(***************************************************************************)
StatusPacket(id) == <<10, 0, 0, 0,  0, 0, 0, 0,  0, 0,  48, 0,  0,  0,  0, id>>
BadStatusPacket(id) == <<10, 0, 0, 0,  0, 0, 0, 0,  4, 0,  48, 0,  0,  0,  0, id>>
QueryPacket == <<255, 255, 255, 255,  46, 4,  0, 0,  103, 43,  46, 4,
                 0, 0, 255, 255>>
GarbageByte == <<170>>

GarbageRuns == { [i \in 1..k |-> "G"] : k \in 1..MaxGarbage }

ChunkShapes ==
    { <<"S">>, <<"Q">>, <<"B">>, <<"J">>, <<"S", "S">>, <<"Q", "S", "S">> }
    \cup GarbageRuns
    \cup { g \o <<"S">> : g \in GarbageRuns }

StartIds == {254}

RECURSIVE ChunkItems(_, _)
ChunkItems(shape, id) ==
    IF shape = <<>> THEN <<>>
    ELSE LET k == Head(shape)
             this == IF k = "J" THEN (id + 1) % ID_MODULUS ELSE id
             next == IF k \in {"S", "B", "J", "T"}
                     THEN (this + 1) % ID_MODULUS
                     ELSE id
         IN << [kind |-> k, id |-> IF k \in {"S", "B", "J", "H", "T"}
                                    THEN this
                                    ELSE NoneId] >>
            \o ChunkItems(Tail(shape), next)

ItemBytes(item) ==
    CASE item.kind \in {"S", "J"} -> StatusPacket(item.id)
      [] item.kind = "B" -> BadStatusPacket(item.id)
      [] item.kind = "Q" -> QueryPacket
      [] item.kind = "H" -> TakeBytes(StatusPacket(item.id), SplitAt)
      [] item.kind = "T" -> DropBytes(StatusPacket(item.id), SplitAt)
      [] OTHER -> GarbageByte

RECURSIVE ChunkBytes(_)
ChunkBytes(items) ==
    IF items = <<>> THEN <<>>
    ELSE ItemBytes(Head(items)) \o ChunkBytes(Tail(items))

\* the id the device uses after sending items
RECURSIVE NextDevId(_, _)
NextDevId(items, id) ==
    IF items = <<>> THEN id
    ELSE NextDevId(Tail(items),
                   IF Head(items).kind \in {"Q", "G", "H"} THEN id
                   ELSE (Head(items).id + 1) % ID_MODULUS)

\* the records a chunk of whole valid packets stands for, in arrival order
RECURSIVE ExpectedRecords(_)
ExpectedRecords(items) ==
    IF items = <<>> THEN <<>>
    ELSE << [type |-> IF Head(items).kind = "Q" THEN "query" ELSE "status",
             id |-> Head(items).id] >> \o ExpectedRecords(Tail(items))

CountOf(seq, x) == Cardinality({i \in 1..Len(seq) : seq[i] = x})

(***************************************************************************)
(* State.                                                                  *)
(***************************************************************************)
VARIABLES
    transport,       \* "ble": a RadAlertLE session, "hid": a RadAlertHID one
    poll_buffer,     \* self._poll_buffer (HID)
    peripheral,      \* self._peripheral is not None (HID: the device is open)
    service,         \* self._service is not None
    command_buffer,  \* self._command_buffer
    receive_buffer,  \* self._receive_buffer
    last_id,         \* self._last_id
    sync_count,      \* self._sync_count
    iteration,       \* the local counter of spin()
    pc,              \* where the thread that calls spin() is
    dev_id,          \* the rolling id the device gives its next status packet
    sent,            \* items the device has sent so far
    \* history of what the session was fed
    run,             \* valid in-order whole status packets fed in a row
    before,          \* what preceded that run
    \* history of what the session did
    nrec,            \* records handed to packet_callback since connect
    pair,            \* ids of the last two status records handed over in a row
    cycleClean,      \* the last chunk: whole valid packets into an ACTIVE session
    expect,          \* the records that chunk stands for
    delivered,       \* records handed to packet_callback since the last chunk
    written,         \* commands passed to the transport since the last chunk
    startCmds,       \* the command buffer when the last chunk arrived
    enq,             \* startCmds and every command enqueued since
    packet_callback, \* self.packet_callback (HID: status_ and query_callback)
    hist,            \* what the client's calls did, see InitHist
    app,             \* the client's own objects: a filter or a log backend
    local            \* locals of the handler running in spin(), see NoLocal

hidVars == <<transport, poll_buffer>>
sessionVars == <<hidVars, peripheral, service, command_buffer, receive_buffer, last_id,
                 sync_count, iteration, pc>>
deviceVars == <<dev_id, sent>>
feedVars == <<run, before>>
cycleVars == <<cycleClean, expect, delivered, written, startCmds, enq>>
apiVars == <<packet_callback, hist, app>>
vars == <<sessionVars, deviceVars, feedVars, nrec, pair, cycleVars, apiVars,
          local>>

NoPair == <<NoneId, NoneId>>

\* a session whose client holds no filter and no log backend
NoApp == [kind |-> "none"]

\* the callable the client hands to the constructor, and Python None
ClientCallback == "client"
NoCallback == "None"

(***************************************************************************)
(* History of the client's calls.  dcalls: calls of disconnect() in a row  *)
(* (counted to 2); reclosed: the last disconnect() closed a transport that *)
(* was not open; raced: disconnect() ran while spin() was running;        *)
(* wfail: a write to the transport failed during this spin();              *)
(* connFailed: the last connect() raised; exit: how spin() ended, "none"   *)
(* while it runs or was not called since connect(); reconn: the session    *)
(* was connected again after it had delivered records; recent: the last    *)
(* five notifications spin() counted since connect(), "Q" where a query    *)
(* was enqueued after it and "N" where not; dpc: where a second thread     *)
(* that called disconnect() is, the name of the field _reset assigns next; *)
(* tmo: the last thing spin() met while waiting was a receive timeout;     *)
(* pass: the parity of the passes the loop of RadAlertHID._synchronize     *)
(* has made in the call that is running, 0 outside it; delegate: the       *)
(* Peripheral that self._peripheral holds has _on_receive installed as the *)
(* handler of its notifications (TransparentService has called             *)
(* setDelegate).                                                           *)
(***************************************************************************)
InitHist ==
    [dcalls |-> 0, reclosed |-> FALSE, raced |-> FALSE, wfail |-> FALSE,
     connFailed |-> FALSE, exit |-> "none", reconn |-> FALSE,
     recent |-> <<>>, dpc |-> "idle", same |-> 0, na |-> FALSE,
     frame |-> [kind |-> "none"], rec |-> [kind |-> "none"],
     tmo |-> FALSE, pass |-> 0, delegate |-> FALSE]

(***************************************************************************)
(* The locals of the receive handler while spin() is inside it: caller is  *)
(* the loop that called _decode ("sync" for _synchronize, "proc" for       *)
(* _process), bytestr the argument of _on_receive, packet the local of     *)
(* _decode, data the record _decode builds and gives back to _process      *)
(* (kind "none" for None), message the local of _on_receive.  They are     *)
(* kept only where another thread runs between the statements of the       *)
(* handler.                                                                *)
(***************************************************************************)
NoData == [kind |-> "none", id |-> NoneId]
NoLocal == [caller |-> "none", bytestr |-> <<>>, packet |-> <<>>,
            data |-> NoData, message |-> ""]

\* recent after one more notification x
Push(w, x) ==
    IF Len(w) < QUERY_PERIOD THEN Append(w, x) ELSE Append(Tail(w), x)

InitSessionVars ==
    /\ poll_buffer = <<>>
    /\ peripheral = FALSE
    /\ service = FALSE
    /\ command_buffer = <<>>
    /\ receive_buffer = <<>>
    /\ last_id = NoneId
    /\ sync_count = 0
    /\ iteration = 0
    /\ pc = "idle"
    /\ dev_id \in StartIds
    /\ sent = 0
    /\ run = 0
    /\ before = "other"
    /\ nrec = 0
    /\ pair = NoPair
    /\ cycleClean = FALSE
    /\ expect = <<>>
    /\ delivered = <<>>
    /\ written = <<>>
    /\ startCmds = <<>>
    /\ enq = <<>>
    /\ packet_callback = ClientCallback
    /\ hist = InitHist
    /\ local = NoLocal

\* a session as its constructor leaves it, in a client without filters
InitSession == InitSessionVars /\ app = NoApp

\* RadAlertLE.__init__
Init == transport = "ble" /\ InitSession

\* the history variables after RadAlertLE._reset
ResetHistory ==
    /\ run' = 0
    /\ before' = "connect"
    /\ nrec' = 0
    /\ pair' = NoPair
    /\ cycleClean' = FALSE
    /\ expect' = <<>>
    /\ delivered' = <<>>
    /\ written' = <<>>
    /\ startCmds' = <<>>
    /\ enq' = <<>>

\* _reset that also forgets the callback
ResetClearsCallback ==
    /\ command_buffer' = <<>>
    /\ receive_buffer' = <<>>
    /\ last_id' = NoneId
    /\ sync_count' = 0
    /\ packet_callback' = NoCallback
    /\ UNCHANGED app

\* _reset that leaves the command buffer alone
ResetKeepsCommands ==
    /\ UNCHANGED command_buffer
    /\ receive_buffer' = <<>>
    /\ last_id' = NoneId
    /\ sync_count' = 0
    /\ UNCHANGED <<packet_callback, app>>

\* RadAlertLE._reset
Reset ==
    /\ command_buffer' = <<>>
    /\ receive_buffer' = <<>>
    /\ last_id' = NoneId
    /\ sync_count' = 0
    /\ UNCHANGED <<packet_callback, app>>

\* RadAlertLE.connect: disconnect(), then the link and the service are opened
Connect ==
    /\ pc = "idle"
    /\ hist.dpc = "idle"
    /\ Reset
    /\ peripheral' = TRUE
    /\ service' = TRUE
    /\ ResetHistory
    /\ hist' = [hist EXCEPT !.dcalls = 0, !.reclosed = FALSE,
                            !.raced = FALSE, !.wfail = FALSE,
                            !.connFailed = FALSE, !.exit = "none",
                            !.reconn = @ \/ nrec > 0, !.recent = <<>>,
                            !.delegate = TRUE]
    /\ UNCHANGED <<hidVars, iteration, pc, deviceVars>>
    /\ UNCHANGED local

\* where connect() can raise: "link", Peripheral(address) raises after
\* disconnect() has run; "service", TransparentService(...) raises before
\* it installs its delegate; "descriptor", it raises at its last
\* statement, the write of the descriptor that turns the notifications
\* on, after setDelegate
ConnectSteps == {"link", "service", "descriptor"}

\* RadAlertLE.connect raises.  When TransparentService raises,
\* self._peripheral was assigned the line before and nothing takes it
\* back; self._service stays None, also when the delegate is installed.
ConnectFail(step) ==
    /\ pc = "idle"
    /\ Reset
    /\ peripheral' = (step \in {"service", "descriptor"})
    /\ service' = FALSE
    /\ ResetHistory
    /\ hist' = [hist EXCEPT !.dcalls = 0, !.reclosed = FALSE,
                            !.raced = FALSE, !.wfail = FALSE,
                            !.connFailed = TRUE, !.exit = "none",
                            !.reconn = @ \/ nrec > 0, !.recent = <<>>,
                            !.delegate = (step = "descriptor")]
    /\ UNCHANGED <<hidVars, iteration, pc, deviceVars>>
    /\ UNCHANGED local

\* RadAlertLE.disconnect, called by the thread that is not inside spin():
\* the link is closed only if self._peripheral is not None
Disconnect ==
    /\ pc = "idle"
    /\ Reset
    /\ peripheral' = FALSE
    /\ service' = FALSE
    /\ ResetHistory
    /\ hist' = [hist EXCEPT !.dcalls = IF @ < 2 THEN @ + 1 ELSE @,
                            !.reclosed = FALSE, !.wfail = FALSE,
                            !.exit = "none", !.reconn = @ \/ nrec > 0,
                            !.recent = <<>>, !.delegate = FALSE]
    /\ UNCHANGED <<hidVars, iteration, pc, deviceVars>>
    /\ UNCHANGED local

\* RadAlertLE.trigger_query, called by the client between two receive
\* cycles (calls from inside the callback are part of ProcStep)
TriggerQuery ==
    /\ pc \in {"idle", "wait"}
    /\ CountOf(enq, CMD_QUERY) < MaxCmd
    /\ command_buffer' = Append(command_buffer, CMD_QUERY)
    /\ enq' = Append(enq, CMD_QUERY)
    /\ hist' = [hist EXCEPT !.dcalls = 0, !.raced = FALSE]
    /\ UNCHANGED <<hidVars, peripheral, service, receive_buffer, last_id, sync_count,
                   iteration, pc, deviceVars, feedVars, nrec, pair,
                   cycleClean, expect, delivered, written, startCmds,
                   packet_callback, app>>
    /\ UNCHANGED local

\* RadAlertLE.spin is entered: RuntimeError without a peripheral
Spin ==
    /\ pc = "idle"
    /\ peripheral
    /\ pc' = "wait"
    /\ iteration' = 0
    /\ hist' = [hist EXCEPT !.dcalls = 0, !.wfail = FALSE,
                            !.exit = "none", !.tmo = FALSE]
    /\ UNCHANGED <<hidVars, peripheral, service, command_buffer, receive_buffer,
                   last_id, sync_count, deviceVars, feedVars, nrec, pair,
                   cycleVars, packet_callback, app>>
    /\ UNCHANGED local

\* a timeout that spin answers by dropping the session to SYNCING
TimeoutDesync ==
    /\ pc = "wait"
    /\ peripheral
    /\ iteration' = 0
    /\ sync_count' = 0
    /\ last_id' = NoneId
    /\ hist' = [hist EXCEPT !.tmo = TRUE]
    /\ UNCHANGED <<hidVars, peripheral, service, command_buffer, receive_buffer,
                   pc, deviceVars, feedVars, nrec, pair,
                   cycleVars, packet_callback, app>>
    /\ UNCHANGED local

\* waitForNotifications(8.5) returns False: the inner loop of spin is left
\* and entered again
Timeout ==
    /\ pc = "wait"
    /\ peripheral
    /\ iteration' = 0
    /\ hist' = [hist EXCEPT !.tmo = TRUE]
    /\ UNCHANGED <<hidVars, peripheral, service, command_buffer, receive_buffer,
                   last_id, sync_count, pc, deviceVars, feedVars, nrec, pair,
                   cycleVars, packet_callback, app>>
    /\ UNCHANGED local

\* waitForNotifications raises: the error leaves spin(), which has no
\* handler and no cleanup
TransportError ==
    /\ pc = "wait"
    /\ peripheral
    /\ pc' = "idle"
    /\ hist' = [hist EXCEPT !.exit = "transport", !.tmo = FALSE]
    /\ UNCHANGED <<hidVars, peripheral, service, command_buffer, receive_buffer,
                   last_id, sync_count, iteration, deviceVars, feedVars, nrec,
                   pair, cycleVars, packet_callback, app>>
    /\ UNCHANGED local

\* The history of the feed after one more item.  run counts up to
\* SYNC_TARGET; before is "connect" (nothing was fed since connect),
\* "connectG" (one garbage byte and nothing else), "pktG" (a valid packet,
\* then garbage bytes only), "jump" (a status packet that skipped an id
\* reached an ACTIVE session) or "other".
FeedItem(h, item, active) ==
    CASE item.kind = "S" ->
           [h EXCEPT !.run = IF h.run < SYNC_TARGET THEN h.run + 1 ELSE h.run]
      [] item.kind = "G" ->
           [run |-> 0,
            before |-> IF h.run >= 1 THEN "pktG"
                       ELSE IF h.before = "connect" THEN "connectG"
                       ELSE IF h.before = "pktG" THEN "pktG"
                       ELSE "other"]
      [] item.kind = "J" ->
           [run |-> 0, before |-> IF active THEN "jump" ELSE "other"]
      [] OTHER ->
           [run |-> 0, before |-> "other"]

RECURSIVE Feed(_, _, _)
Feed(h, items, active) ==
    IF items = <<>> THEN h
    ELSE Feed(FeedItem(h, Head(items), active), Tail(items), active)

\* a chunk of whole valid packets whose ids continue self._last_id
CleanChunk(items, last) ==
    /\ \A i \in 1..Len(items) : items[i].kind \in {"S", "Q"}
    /\ \A i \in 1..Len(items) :
          (items[i].kind = "S" /\ \A j \in 1..(i - 1) : items[j].kind # "S")
          => (last = NoneId \/ items[i].id = (last + 1) % ID_MODULUS)

\* RadAlertLE._on_receive, first statement: the notification's bytes are
\* appended to the receive buffer and _process is entered.  The handler
\* runs on every session whose Peripheral has the delegate, with or
\* without self._service; without it the device is followed up to its
\* item MaxHalfOpen.
Notify(shape, limit) ==
    /\ pc = "wait"
    /\ peripheral
    /\ hist.delegate
    /\ sent + Len(shape) <= limit
    /\ service \/ sent + Len(shape) <= MaxHalfOpen
    /\ LET items == ChunkItems(shape, dev_id)
           active == Synchronized(sync_count) /\ last_id # NoneId
                     /\ receive_buffer = <<>>
           h == Feed([run |-> run, before |-> before], items, active)
           clean == Synchronized(sync_count) /\ receive_buffer = <<>>
                    /\ CleanChunk(items, last_id)
       IN /\ receive_buffer' = receive_buffer \o ChunkBytes(items)
          /\ dev_id' = NextDevId(items, dev_id)
          /\ sent' = sent + Len(shape)
          /\ run' = h.run
          /\ before' = h.before
          /\ cycleClean' = clean
          /\ expect' = IF clean THEN ExpectedRecords(items) ELSE <<>>
    /\ pc' = "sync"
    /\ delivered' = <<>>
    /\ written' = <<>>
    /\ startCmds' = command_buffer
    /\ enq' = command_buffer
    /\ hist' = [hist EXCEPT !.tmo = FALSE]
    /\ UNCHANGED <<hidVars, peripheral, service, command_buffer, last_id, sync_count,
                   iteration, nrec, pair, packet_callback, app>>
    /\ UNCHANGED local

\* the last two status ids handed over in a row, after a step
NextPair(p, r) ==
    IF r.sync = 0 THEN NoPair
    ELSE IF r.emit # <<>> /\ r.emit[1].type = "status"
         THEN <<p[2], r.emit[1].id>>
         ELSE p

\* RadAlertLE._synchronize: the loop test and one iteration of the loop
SyncStep ==
    /\ pc = "sync"
    /\ IF Synchronized(sync_count)
       THEN /\ pc' = "proc"
            /\ UNCHANGED <<command_buffer, receive_buffer, last_id,
                           sync_count, nrec, pair, delivered, enq>>
       ELSE LET r == SynchronizeStep(receive_buffer, last_id, sync_count)
            IN /\ receive_buffer' = r.buf
               /\ last_id' = r.last_id
               /\ sync_count' = r.sync
               /\ command_buffer' = command_buffer \o Acks(r.acks)
               /\ enq' = enq \o Acks(r.acks)
               /\ delivered' = delivered \o r.emit
               /\ nrec' = nrec + Len(r.emit)
               /\ pair' = NextPair(pair, r)
               /\ pc' = IF r.stop THEN "proc" ELSE "sync"
    /\ UNCHANGED <<hidVars, peripheral, service, iteration, deviceVars, run, before,
                   cycleClean, expect, written, startCmds, apiVars>>
    /\ UNCHANGED local

\* RadAlertLE._process: the loop test and one iteration of the while loop;
\* q says whether the client's callback calls trigger_query
ProcStep(q) ==
    /\ pc = "proc"
    /\ IF ~Synchronized(sync_count)
       THEN /\ ~q
            /\ pc' = "flush"
            /\ UNCHANGED <<command_buffer, receive_buffer, last_id,
                           sync_count, nrec, pair, delivered, enq>>
       ELSE LET r == ProcessStep(receive_buffer, last_id, sync_count)
                cmds == Acks(r.acks) \o (IF q THEN <<CMD_QUERY>> ELSE <<>>)
            IN /\ q => (r.emit # <<>>
                        /\ CountOf(enq, CMD_QUERY) < MaxCmd)
               /\ receive_buffer' = r.buf
               /\ last_id' = r.last_id
               /\ sync_count' = r.sync
               /\ command_buffer' = command_buffer \o cmds
               /\ enq' = enq \o cmds
               /\ delivered' = delivered \o r.emit
               /\ nrec' = nrec + Len(r.emit)
               /\ pair' = NextPair(pair, r)
               /\ pc' = IF r.stop THEN "flush" ELSE "proc"
    /\ UNCHANGED <<hidVars, peripheral, service, iteration, deviceVars, run, before,
                   cycleClean, expect, written, startCmds, apiVars>>
    /\ UNCHANGED local

\* _send_ack that writes at once instead of enqueueing: commands leave
\* while _process is still decoding
FlushStepEarly ==
    /\ pc \in {"proc", "flush"}
    /\ command_buffer # <<>>
    /\ service
    /\ LET p == PopCommand(command_buffer)
       IN /\ command_buffer' = p.rest
          /\ written' = Append(written, p.message)
    /\ UNCHANGED <<hidVars, peripheral, service, receive_buffer, last_id, sync_count,
                   iteration, pc, deviceVars, feedVars, nrec, pair,
                   cycleClean, expect, delivered, startCmds, enq, apiVars>>
    /\ UNCHANGED local

\* RadAlertLE._on_receive, one iteration of the loop that empties the
\* command buffer: pop(0), then _send_command
FlushStep ==
    /\ pc = "flush"
    /\ command_buffer # <<>>
    /\ service
    /\ LET p == PopCommand(command_buffer)
       IN /\ command_buffer' = p.rest
          /\ written' = Append(written, p.message)
    /\ UNCHANGED <<hidVars, peripheral, service, receive_buffer, last_id, sync_count,
                   iteration, pc, deviceVars, feedVars, nrec, pair,
                   cycleClean, expect, delivered, startCmds, enq, apiVars>>
    /\ UNCHANGED local

\* The write of _send_command raises (the link dropped): the command was
\* popped, and the error leaves _on_receive, waitForNotifications and
\* spin().
WriteError ==
    /\ pc = "flush"
    /\ command_buffer # <<>>
    /\ service
    /\ LET p == PopCommand(command_buffer)
       IN /\ command_buffer' = p.rest
          /\ written' = Append(written, p.message)
    /\ pc' = "idle"
    /\ hist' = [hist EXCEPT !.wfail = TRUE, !.exit = "transport"]
    /\ UNCHANGED <<hidVars, peripheral, service, receive_buffer, last_id, sync_count,
                   iteration, deviceVars, feedVars, nrec, pair,
                   cycleClean, expect, delivered, startCmds, enq,
                   packet_callback, app>>
    /\ UNCHANGED local

\* _send_command finds self._service is None (connect() raised after the
\* delegate was installed): the command was popped, and
\* RuntimeError("Service has not been initialized") leaves _on_receive,
\* waitForNotifications and spin()
FlushFail ==
    /\ pc = "flush"
    /\ command_buffer # <<>>
    /\ ~service
    /\ command_buffer' = PopCommand(command_buffer).rest
    /\ pc' = "idle"
    /\ hist' = [hist EXCEPT !.exit = "RuntimeError"]
    /\ UNCHANGED <<hidVars, peripheral, service, receive_buffer, last_id,
                   sync_count, iteration, deviceVars, feedVars, nrec, pair,
                   cycleVars, packet_callback, app, local>>

\* spin without the test iteration % 5 == 0: a query after every
\* notification
NotificationDoneQueryEach ==
    /\ pc = "flush"
    /\ command_buffer = <<>>
    /\ iteration' = iteration + 1
    /\ command_buffer' = Append(command_buffer, CMD_QUERY)
    /\ enq' = Append(enq, CMD_QUERY)
    /\ hist' = [hist EXCEPT !.recent = Push(@, "Q")]
    /\ pc' = "wait"
    /\ UNCHANGED <<hidVars, peripheral, service, receive_buffer, last_id, sync_count,
                   deviceVars, feedVars, nrec, pair, cycleClean, expect,
                   delivered, written, startCmds, packet_callback, app>>
    /\ UNCHANGED local

\* _on_receive returns and waitForNotifications returns True: spin counts
\* the notification and enqueues a query on every fifth
NotificationDone ==
    /\ pc = "flush"
    /\ command_buffer = <<>>
    /\ iteration' = iteration + 1
    /\ IF (iteration + 1) % QUERY_PERIOD = 0
       THEN /\ command_buffer' = Append(command_buffer, CMD_QUERY)
            /\ enq' = Append(enq, CMD_QUERY)
            /\ hist' = [hist EXCEPT
                           !.recent = Push(@, "Q")]
       ELSE /\ UNCHANGED <<command_buffer, enq>>
            /\ hist' = [hist EXCEPT
                           !.recent = Push(@, "N")]
    /\ pc' = "wait"
    /\ UNCHANGED <<hidVars, peripheral, service, receive_buffer, last_id, sync_count,
                   deviceVars, feedVars, nrec, pair, cycleClean, expect,
                   delivered, written, startCmds, packet_callback, app>>
    /\ UNCHANGED local

Next ==
    \/ Connect
    \/ \E step \in ConnectSteps : ConnectFail(step)
    \/ Disconnect
    \/ TriggerQuery
    \/ Spin
    \/ Timeout
    \/ TransportError
    \/ \E shape \in ChunkShapes : Notify(shape, MaxPackets)
    \/ SyncStep
    \/ \E q \in BOOLEAN : ProcStep(q)
    \/ FlushStep
    \/ FlushFail
    \/ NotificationDone

Spec == Init /\ [][Next]_vars

(***************************************************************************)
(* The same session on a link that delivers one item per notification,     *)
(* with a client that only connects and spins: the runs are long enough    *)
(* for a resynchronisation to be followed to its end.                      *)
(***************************************************************************)
ItemShapes == { <<"S">>, <<"Q">>, <<"J">>, <<"G">> }

NextFeed ==
    \/ Connect
    \/ Spin
    \/ \E shape \in ItemShapes : Notify(shape, MaxFeed)
    \/ SyncStep
    \/ ProcStep(FALSE)
    \/ FlushStep
    \/ NotificationDone

SpecFeed == Init /\ [][NextFeed]_vars

(***************************************************************************)
(* The same link, with receive timeouts between the notifications.         *)
(***************************************************************************)
SpinShapes == { <<"S">>, <<"Q">> }

NextSpin ==
    \/ Connect
    \/ Spin
    \/ Timeout
    \/ \E shape \in SpinShapes : Notify(shape, MaxFeed)
    \/ SyncStep
    \/ ProcStep(FALSE)
    \/ FlushStep
    \/ NotificationDone

SpecSpin == Init /\ [][NextSpin]_vars

(***************************************************************************)
(* The same client on a link that cuts a status packet in two: "H" is the  *)
(* first SplitAt bytes of the device's next status packet, "T" the rest    *)
(* of it, each the end or the whole of a notification.                     *)
(***************************************************************************)
SplitShapes == { <<"Q">>, <<"S">>, <<"S", "H">>, <<"H">>, <<"T">>,
                 <<"T", "S">> }

NextSplit ==
    \/ Connect
    \/ Spin
    \/ \E shape \in SplitShapes : Notify(shape, MaxFeed)
    \/ SyncStep
    \/ ProcStep(FALSE)
    \/ FlushStep
    \/ NotificationDone

SpecSplit == Init /\ [][NextSplit]_vars

(***************************************************************************)
(* A second thread of the client calls disconnect() while the first is     *)
(* inside spin().  Nothing in the class orders the two: the second thread  *)
(* runs between any two statements of the first, and the first between     *)
(* any two statements of disconnect() and _reset.  The handler is          *)
(* therefore taken statement by statement here; pc names the statement     *)
(* the thread of spin() executes next:                                     *)
(*   "recv"   _on_receive is entered: self._receive_buffer += bytestr      *)
(*   "sync"   the test of the while loop of _synchronize                   *)
(*   "proc"   the test of the while loop of _process                       *)
(*   "decode" _decode: if len(self._receive_buffer) < 16                   *)
(*   "take"   _decode: packet = self._receive_buffer[0:16]                 *)
(*   "build"  _decode: the constructor of the record                       *)
(*   "idtest" _decode: if self._last_id is not None                        *)
(*   "idcmp"  _decode: if (self._last_id + 1) % 256 != data.id             *)
(*   "idjump" _decode: self._last_id = None, raise                         *)
(*   "idset"  _decode: self._last_id = data.id                             *)
(*   "count"  self._sync_count += 1            (_synchronize)              *)
(*   "sack"   self._send_ack()                 (_synchronize)              *)
(*   "sdrop", "szero", "sclear"  the three assignments of the except       *)
(*            branch of _synchronize                                       *)
(*   "slice"  self._receive_buffer = self._receive_buffer[16:]             *)
(*   "desync" self._desynchronize()                                        *)
(*   "pack"   self._send_ack()                 (_process)                  *)
(*   "call"   if data is not None: self.packet_callback(data)              *)
(*   "flush"  the test of the while loop of _on_receive                    *)
(*   "pop"    message = self._command_buffer.pop(0)                        *)
(*   "send"   the test of self._service in _send_command                   *)
(*   "write"  self._service.send_string(...) is called                     *)
(*   "string" send_string: self._char_rx.write(...)                        *)
(* hist.dpc names the field the second thread assigns next in _reset, and  *)
(* is "idle" when no disconnect() is running.                              *)
(***************************************************************************)

\* the chunks and the number of items fed to a session that is
\* disconnected by a second thread
AsyncShapes == { <<"Q">>, <<"S">>, <<"B">> }

\* the link was closed by Peripheral.disconnect(), or never opened
LinkClosed == hist.dpc # "idle" \/ ~peripheral

\* what no statement of the handler changes
handlerFrame == <<hidVars, peripheral, service, iteration, deviceVars,
                  feedVars, cycleClean, expect, startCmds, packet_callback,
                  app>>

\* A notification arrives on the open link and the delegate calls
\* _on_receive(bytestr): the handler is entered, nothing is assigned yet.
\* None arrives once the link was closed.
NotifyEnter(shape, limit) ==
    /\ pc = "wait"
    /\ peripheral
    /\ hist.delegate
    /\ hist.dpc = "idle"
    /\ sent + Len(shape) <= limit
    /\ LET items == ChunkItems(shape, dev_id)
           active == Synchronized(sync_count) /\ last_id # NoneId
                     /\ receive_buffer = <<>>
           h == Feed([run |-> run, before |-> before], items, active)
           clean == Synchronized(sync_count) /\ receive_buffer = <<>>
                    /\ CleanChunk(items, last_id)
       IN /\ local' = [local EXCEPT !.bytestr = ChunkBytes(items)]
          /\ dev_id' = NextDevId(items, dev_id)
          /\ sent' = sent + Len(shape)
          /\ run' = h.run
          /\ before' = h.before
          /\ cycleClean' = clean
          /\ expect' = IF clean THEN ExpectedRecords(items) ELSE <<>>
    /\ pc' = "recv"
    /\ delivered' = <<>>
    /\ written' = <<>>
    /\ startCmds' = command_buffer
    /\ enq' = command_buffer
    /\ hist' = [hist EXCEPT !.tmo = FALSE]
    /\ UNCHANGED <<hidVars, peripheral, service, command_buffer,
                   receive_buffer, last_id, sync_count, iteration, nrec,
                   pair, packet_callback, app>>

\* _on_receive: self._receive_buffer += bytestr, to the buffer as it is
\* now; _process is entered
ReceiveAppend ==
    /\ pc = "recv"
    /\ receive_buffer' = receive_buffer \o local.bytestr
    /\ pc' = "sync"
    /\ UNCHANGED <<handlerFrame, command_buffer, last_id, sync_count, nrec,
                   pair, delivered, written, enq, hist, local>>

\* _synchronize: while not self._synchronized()
SynchronizeTest ==
    /\ pc = "sync"
    /\ pc' = IF Synchronized(sync_count) THEN "proc" ELSE "decode"
    /\ local' = [local EXCEPT !.caller = "sync"]
    /\ UNCHANGED <<handlerFrame, command_buffer, receive_buffer, last_id,
                   sync_count, nrec, pair, delivered, written, enq, hist>>

\* _process: while self._synchronized(), and data = None
ProcessTest ==
    /\ pc = "proc"
    /\ pc' = IF Synchronized(sync_count) THEN "decode" ELSE "flush"
    /\ local' = [local EXCEPT !.caller = "proc", !.data = NoData]
    /\ UNCHANGED <<handlerFrame, command_buffer, receive_buffer, last_id,
                   sync_count, nrec, pair, delivered, written, enq, hist>>

\* where _decode goes back to: with a record or None (raised = FALSE) to
\* the statement after the call, with an exception to the except branch
DecodeReturn(caller, raised) ==
    CASE caller = "sync" /\ raised -> "sdrop"
      [] caller = "sync" -> "count"
      [] raised -> "desync"
      [] OTHER -> "slice"

\* _decode: if len(self._receive_buffer) < 16: return None.  _synchronize
\* breaks on None, _process goes on to the slice.
DecodeTest ==
    /\ pc = "decode"
    /\ IF Len(receive_buffer) < PACKET_LEN
       THEN /\ pc' = IF local.caller = "sync" THEN "proc" ELSE "slice"
            /\ local' = [local EXCEPT !.data = NoData]
       ELSE /\ pc' = "take"
            /\ UNCHANGED local
    /\ UNCHANGED <<handlerFrame, command_buffer, receive_buffer, last_id,
                   sync_count, nrec, pair, delivered, written, enq, hist>>

\* _decode: packet = self._receive_buffer[0:16], of the buffer as it is
\* now (empty when _reset has run since the test)
DecodeTake ==
    /\ pc = "take"
    /\ local' = [local EXCEPT
                    !.packet = TakeBytes(receive_buffer, PACKET_LEN)]
    /\ pc' = "build"
    /\ UNCHANGED <<handlerFrame, command_buffer, receive_buffer, last_id,
                   sync_count, nrec, pair, delivered, written, enq, hist>>

\* the record RadAlertLEQuery(packet) or RadAlertLEStatus(packet) builds:
\* struct.unpack raises on a packet that is not 16 bytes long, _validate
\* on a field out of range
BuildRecord(packet) ==
    IF Len(packet) # PACKET_LEN THEN [kind |-> "raise", id |-> NoneId]
    ELSE IF IsQueryHeader(packet)
         THEN IF QueryValidate(QueryUnpack(packet))
              THEN [kind |-> "query", id |-> NoneId]
              ELSE [kind |-> "raise", id |-> NoneId]
         ELSE LET d == StatusUnpack(packet)
              IN IF StatusValidate(d)
                 THEN [kind |-> "status", id |-> d.id]
                 ELSE [kind |-> "raise", id |-> NoneId]

\* _decode: data = RadAlertLEQuery(packet) or RadAlertLEStatus(packet); a
\* query is returned at once, the id of a status record is tested next
DecodeBuild ==
    /\ pc = "build"
    /\ LET r == BuildRecord(local.packet)
       IN /\ local' = [local EXCEPT
                          !.data = IF r.kind = "raise" THEN NoData ELSE r]
          /\ pc' = CASE r.kind = "raise" -> DecodeReturn(local.caller, TRUE)
                     [] r.kind = "query" -> DecodeReturn(local.caller, FALSE)
                     [] OTHER -> "idtest"
    /\ UNCHANGED <<handlerFrame, command_buffer, receive_buffer, last_id,
                   sync_count, nrec, pair, delivered, written, enq, hist>>

\* _decode: if self._last_id is not None
DecodeIdTest ==
    /\ pc = "idtest"
    /\ pc' = IF last_id # NoneId THEN "idcmp" ELSE "idset"
    /\ UNCHANGED <<handlerFrame, command_buffer, receive_buffer, last_id,
                   sync_count, nrec, pair, delivered, written, enq, hist,
                   local>>

\* _decode: if (self._last_id + 1) % 256 != data.id, with self._last_id
\* as it is now: None + 1 raises TypeError, which the caller catches as
\* it catches every exception
DecodeIdCompare ==
    /\ pc = "idcmp"
    /\ IF last_id = NoneId
       THEN /\ pc' = DecodeReturn(local.caller, TRUE)
            /\ local' = [local EXCEPT !.data = NoData]
       ELSE /\ pc' = IF (last_id + 1) % ID_MODULUS # local.data.id
                     THEN "idjump" ELSE "idset"
            /\ UNCHANGED local
    /\ UNCHANGED <<handlerFrame, command_buffer, receive_buffer, last_id,
                   sync_count, nrec, pair, delivered, written, enq, hist>>

\* _decode: self._last_id = None; raise ValueError('Packet ID jump ...')
DecodeIdJump ==
    /\ pc = "idjump"
    /\ last_id' = NoneId
    /\ local' = [local EXCEPT !.data = NoData]
    /\ pc' = DecodeReturn(local.caller, TRUE)
    /\ UNCHANGED <<handlerFrame, command_buffer, receive_buffer, sync_count,
                   nrec, pair, delivered, written, enq, hist>>

\* _decode: self._last_id = data.id; return data
DecodeIdSet ==
    /\ pc = "idset"
    /\ last_id' = local.data.id
    /\ pc' = DecodeReturn(local.caller, FALSE)
    /\ UNCHANGED <<handlerFrame, command_buffer, receive_buffer, sync_count,
                   nrec, pair, delivered, written, enq, hist, local>>

\* _synchronize: self._sync_count += 1
SynchronizeCount ==
    /\ pc = "count"
    /\ sync_count' = sync_count + 1
    /\ pc' = "sack"
    /\ UNCHANGED <<handlerFrame, command_buffer, receive_buffer, last_id,
                   nrec, pair, delivered, written, enq, hist, local>>

\* _synchronize, except branch: self._receive_buffer =
\* self._receive_buffer[1:]
SynchronizeDrop ==
    /\ pc = "sdrop"
    /\ receive_buffer' = DropBytes(receive_buffer, 1)
    /\ pc' = "szero"
    /\ UNCHANGED <<handlerFrame, command_buffer, last_id, sync_count, nrec,
                   pair, delivered, written, enq, hist, local>>

\* _synchronize, except branch: self._sync_count = 0
SynchronizeZero ==
    /\ pc = "szero"
    /\ sync_count' = 0
    /\ pair' = NoPair
    /\ pc' = "sclear"
    /\ UNCHANGED <<handlerFrame, command_buffer, receive_buffer, last_id,
                   nrec, delivered, written, enq, hist, local>>

\* _synchronize, except branch: self._last_id = None
SynchronizeClear ==
    /\ pc = "sclear"
    /\ last_id' = NoneId
    /\ pc' = "sync"
    /\ UNCHANGED <<handlerFrame, command_buffer, receive_buffer, sync_count,
                   nrec, pair, delivered, written, enq, hist, local>>

\* _process: self._receive_buffer = self._receive_buffer[16:], of the
\* buffer as it is now
ProcessSlice ==
    /\ pc = "slice"
    /\ receive_buffer' = DropBytes(receive_buffer, PACKET_LEN)
    /\ pc' = "pack"
    /\ UNCHANGED <<handlerFrame, command_buffer, last_id, sync_count, nrec,
                   pair, delivered, written, enq, hist, local>>

\* _process, except branch: self._desynchronize()
ProcessDesync ==
    /\ pc = "desync"
    /\ sync_count' = 0
    /\ pair' = NoPair
    /\ pc' = "pack"
    /\ UNCHANGED <<handlerFrame, command_buffer, receive_buffer, last_id,
                   nrec, delivered, written, enq, hist, local>>

\* _send_ack: the ack is appended to the list self._command_buffer is now
SendAck ==
    /\ pc \in {"sack", "pack"}
    /\ command_buffer' = Append(command_buffer, CMD_ACK)
    /\ enq' = Append(enq, CMD_ACK)
    /\ pc' = IF pc = "sack" THEN "sync" ELSE "call"
    /\ UNCHANGED <<handlerFrame, receive_buffer, last_id, sync_count, nrec,
                   pair, delivered, written, hist, local>>

\* _process: the record goes to packet_callback, or the loop is left when
\* data is None
ProcessCall ==
    /\ pc = "call"
    /\ IF local.data.kind = "none"
       THEN /\ pc' = "flush"
            /\ UNCHANGED <<nrec, pair, delivered>>
       ELSE LET emit == << [type |-> local.data.kind,
                            id |-> local.data.id] >>
            IN /\ delivered' = delivered \o emit
               /\ nrec' = nrec + 1
               /\ pair' = NextPair(pair, [sync |-> sync_count,
                                          emit |-> emit])
               /\ pc' = "proc"
    /\ UNCHANGED <<handlerFrame, command_buffer, receive_buffer, last_id,
                   sync_count, written, enq, hist, local>>

\* _on_receive: while len(self._command_buffer) > 0, found true
FlushTest ==
    /\ pc = "flush"
    /\ command_buffer # <<>>
    /\ pc' = "pop"
    /\ UNCHANGED <<handlerFrame, command_buffer, receive_buffer, last_id,
                   sync_count, nrec, pair, delivered, written, enq, hist,
                   local>>

\* _on_receive: message = self._command_buffer.pop(0)
FlushPop ==
    /\ pc = "pop"
    /\ command_buffer # <<>>
    /\ LET p == PopCommand(command_buffer)
       IN /\ command_buffer' = p.rest
          /\ local' = [local EXCEPT !.message = p.message]
    /\ pc' = "send"
    /\ UNCHANGED <<handlerFrame, receive_buffer, last_id, sync_count, nrec,
                   pair, delivered, written, enq, hist>>

\* pop(0) of the list _reset has put in place of the one that was tested:
\* IndexError leaves spin()
FlushPopEmpty ==
    /\ pc = "pop"
    /\ command_buffer = <<>>
    /\ pc' = "idle"
    /\ hist' = [hist EXCEPT !.exit = "IndexError"]
    /\ UNCHANGED <<handlerFrame, command_buffer, receive_buffer, last_id,
                   sync_count, nrec, pair, delivered, written, enq, local>>

\* _send_command: self._service is not None
SendCheck ==
    /\ pc = "send"
    /\ service
    /\ pc' = "write"
    /\ UNCHANGED <<handlerFrame, command_buffer, receive_buffer, last_id,
                   sync_count, nrec, pair, delivered, written, enq, hist,
                   local>>

\* _send_command finds self._service is None: the command was popped, and
\* RuntimeError("Service has not been initialized") leaves spin()
SendNoService ==
    /\ pc = "send"
    /\ ~service
    /\ pc' = "idle"
    /\ hist' = [hist EXCEPT !.exit = "RuntimeError"]
    /\ UNCHANGED <<handlerFrame, command_buffer, receive_buffer, last_id,
                   sync_count, nrec, pair, delivered, written, enq, local>>

\* _send_command: self._service.send_string is looked up and called
SendEnter ==
    /\ pc = "write"
    /\ service
    /\ pc' = "string"
    /\ UNCHANGED <<handlerFrame, command_buffer, receive_buffer, last_id,
                   sync_count, nrec, pair, delivered, written, enq, hist,
                   local>>

\* self._service.send_string with self._service set to None after the
\* test: AttributeError leaves spin()
SendOnNone ==
    /\ pc = "write"
    /\ ~service
    /\ pc' = "idle"
    /\ hist' = [hist EXCEPT !.exit = "AttributeError"]
    /\ UNCHANGED <<handlerFrame, command_buffer, receive_buffer, last_id,
                   sync_count, nrec, pair, delivered, written, enq, local>>

\* send_string: self._char_rx.write(...) on the open link
SendString ==
    /\ pc = "string"
    /\ ~LinkClosed
    /\ written' = Append(written, local.message)
    /\ pc' = "flush"
    /\ UNCHANGED <<handlerFrame, command_buffer, receive_buffer, last_id,
                   sync_count, nrec, pair, delivered, enq, hist, local>>

\* send_string: self._char_rx.write(...) after the link was closed,
\* whatever self._service is by now: the error of the transport leaves
\* spin(); the command was popped
SendClosed ==
    /\ pc = "string"
    /\ LinkClosed
    /\ written' = Append(written, local.message)
    /\ pc' = "idle"
    /\ hist' = [hist EXCEPT !.wfail = TRUE, !.exit = "transport"]
    /\ UNCHANGED <<handlerFrame, command_buffer, receive_buffer, last_id,
                   sync_count, nrec, pair, delivered, enq, local>>

\* RadAlertLE.disconnect on the second thread, up to the return of
\* self._peripheral.disconnect(): the link is closed, no field is assigned
\* yet.  blocked says that spin() is inside waitForNotifications, which
\* the closing of the link makes raise.
DisconnectAsync(blocked) ==
    /\ pc \notin {"idle", "unblock"}
    /\ blocked => pc = "wait"
    /\ peripheral
    /\ hist.dpc = "idle"
    /\ pc' = IF blocked THEN "unblock" ELSE pc
    /\ hist' = [hist EXCEPT !.dcalls = IF @ < 2 THEN @ + 1 ELSE @,
                            !.raced = TRUE, !.dpc = "peripheral"]
    /\ UNCHANGED <<hidVars, peripheral, service, command_buffer,
                   receive_buffer, last_id, sync_count, iteration,
                   deviceVars, feedVars, nrec, pair, cycleVars,
                   packet_callback, app, local>>

\* the next assignment of _reset on the second thread; disconnect()
\* returns after the last
DisconnectReset ==
    /\ hist.dpc # "idle"
    /\ CASE hist.dpc = "peripheral" ->
              /\ peripheral' = FALSE
              /\ hist' = [hist EXCEPT !.dpc = "service",
                                      !.delegate = FALSE]
              /\ UNCHANGED <<service, command_buffer, receive_buffer,
                             last_id, sync_count, feedVars, nrec, pair,
                             cycleVars>>
         [] hist.dpc = "service" ->
              /\ service' = FALSE
              /\ hist' = [hist EXCEPT !.dpc = "commands"]
              /\ UNCHANGED <<peripheral, command_buffer, receive_buffer,
                             last_id, sync_count, feedVars, nrec, pair,
                             cycleVars>>
         [] hist.dpc = "commands" ->
              /\ command_buffer' = <<>>
              /\ hist' = [hist EXCEPT !.dpc = "receive"]
              /\ UNCHANGED <<peripheral, service, receive_buffer, last_id,
                             sync_count, feedVars, nrec, pair, cycleVars>>
         [] hist.dpc = "receive" ->
              /\ receive_buffer' = <<>>
              /\ hist' = [hist EXCEPT !.dpc = "last_id"]
              /\ UNCHANGED <<peripheral, service, command_buffer, last_id,
                             sync_count, feedVars, nrec, pair, cycleVars>>
         [] hist.dpc = "last_id" ->
              /\ last_id' = NoneId
              /\ hist' = [hist EXCEPT !.dpc = "sync_count"]
              /\ UNCHANGED <<peripheral, service, command_buffer,
                             receive_buffer, sync_count, feedVars, nrec,
                             pair, cycleVars>>
         [] OTHER ->
              /\ sync_count' = 0
              /\ ResetHistory
              /\ hist' = [hist EXCEPT !.dpc = "idle",
                                      !.reconn = @ \/ nrec > 0,
                                      !.recent = <<>>]
              /\ UNCHANGED <<peripheral, service, command_buffer,
                             receive_buffer, last_id>>
    /\ UNCHANGED <<hidVars, iteration, pc, deviceVars, packet_callback, app,
                   local>>

\* waitForNotifications raises the error of the closed link: spin() was
\* blocked in it when the link was closed, or calls it afterwards on the
\* Peripheral that self._peripheral still holds
SpinClosed ==
    /\ \/ pc = "unblock"
       \/ pc = "wait" /\ peripheral /\ LinkClosed
    /\ pc' = "idle"
    /\ hist' = [hist EXCEPT !.exit = "transport"]
    /\ UNCHANGED <<hidVars, peripheral, service, command_buffer,
                   receive_buffer, last_id, sync_count, iteration,
                   deviceVars, feedVars, nrec, pair, cycleVars,
                   packet_callback, app, local>>

\* spin() evaluates self._peripheral.waitForNotifications with
\* self._peripheral = None: AttributeError leaves spin()
SpinOnNone ==
    /\ pc = "wait"
    /\ ~peripheral
    /\ pc' = "idle"
    /\ hist' = [hist EXCEPT !.exit = "AttributeError"]
    /\ UNCHANGED <<hidVars, peripheral, service, command_buffer,
                   receive_buffer, last_id, sync_count, iteration,
                   deviceVars, feedVars, nrec, pair, cycleVars,
                   packet_callback, app, local>>

NextAsync ==
    \/ Connect
    \/ Spin
    \/ \E shape \in AsyncShapes : NotifyEnter(shape, MaxAsync)
    \/ ReceiveAppend
    \/ SynchronizeTest
    \/ ProcessTest
    \/ DecodeTest
    \/ DecodeTake
    \/ DecodeBuild
    \/ DecodeIdTest
    \/ DecodeIdCompare
    \/ DecodeIdJump
    \/ DecodeIdSet
    \/ SynchronizeCount
    \/ SynchronizeDrop
    \/ SynchronizeZero
    \/ SynchronizeClear
    \/ ProcessSlice
    \/ ProcessDesync
    \/ SendAck
    \/ ProcessCall
    \/ FlushTest
    \/ FlushPop
    \/ FlushPopEmpty
    \/ SendCheck
    \/ SendNoService
    \/ SendEnter
    \/ SendOnNone
    \/ SendString
    \/ SendClosed
    \/ NotificationDone
    \/ \E blocked \in BOOLEAN : DisconnectAsync(blocked)
    \/ DisconnectReset
    \/ SpinClosed
    \/ SpinOnNone

SpecAsync == Init /\ [][NextAsync]_vars


(***************************************************************************)
(* The HID session engine (radalert/hid.py, class RadAlertHID).  It keeps  *)
(* the same fields as the BLE one, and _poll_buffer.  A read returns a     *)
(* whole payload; _on_receive replaces the receive buffer with it.         *)
(***************************************************************************)

\* RadAlertHIDStatus.unpack, struct "<IBIBBI"
HidStatusUnpack(p) ==
    [cps      |-> U32(p, 1),
     id       |-> p[5],
     value    |-> U32(p, 6),
     mode     |-> p[10],
     unknown1 |-> p[11],
     unknown2 |-> U32(p, 12)]

\* RadAlertHIDStatus._validate
HidStatusValidate(d) ==
    /\ ~(W32Above(d.cps, MAX_CPS) \/ W32Below(d.cps, 0))
    /\ d.mode \in KNOWN_MODES

\* RadAlertHID._decode: as Decode, and buf is self._receive_buffer after
\* the call (a returned record empties it)
HidDecode(buf, last) ==
    IF Len(buf) # HID_STATUS_LEN
    THEN [kind |-> "none", id |-> NoneId, last_id |-> last, buf |-> buf]
    ELSE LET d == HidStatusUnpack(buf)
         IN IF ~HidStatusValidate(d)
            THEN [kind |-> "raise", id |-> NoneId, last_id |-> last,
                  buf |-> buf]
            ELSE IF last # NoneId /\ (last + 1) % ID_MODULUS # d.id
                 THEN [kind |-> "raise", id |-> d.id, last_id |-> NoneId,
                       buf |-> buf]
                 ELSE [kind |-> "status", id |-> d.id, last_id |-> d.id,
                       buf |-> <<>>]

\* RadAlertHID._synchronize with an except clause that keeps the count
HidSynchronizeStepNoRestart(buf, last, sync, wr) ==
    LET r == HidDecode(buf, last)
    IN CASE r.kind = "none" ->
              [buf |-> r.buf, last_id |-> r.last_id, sync |-> sync,
               acks |-> 0, emit |-> <<>>, stop |-> TRUE]
         [] r.kind = "raise" ->
              [buf |-> r.buf, last_id |-> NoneId, sync |-> sync,
               acks |-> 0, emit |-> <<>>, stop |-> FALSE]
         [] OTHER ->
              IF wr
              THEN [buf |-> r.buf, last_id |-> r.last_id, sync |-> sync + 1,
                    acks |-> 1, emit |-> <<>>, stop |-> FALSE]
              ELSE [buf |-> r.buf, last_id |-> NoneId, sync |-> 0,
                    acks |-> 0, emit |-> <<>>, stop |-> FALSE]

\* RadAlertHID._synchronize that calls status_callback after _send_ack
HidSynchronizeStepEmit(buf, last, sync, wr) ==
    LET r == HidDecode(buf, last)
    IN CASE r.kind = "none" ->
              [buf |-> r.buf, last_id |-> r.last_id, sync |-> sync,
               acks |-> 0, emit |-> <<>>, stop |-> TRUE]
         [] r.kind = "raise" ->
              [buf |-> r.buf, last_id |-> NoneId, sync |-> 0,
               acks |-> 0, emit |-> <<>>, stop |-> FALSE]
         [] OTHER ->
              IF wr
              THEN [buf |-> r.buf, last_id |-> r.last_id, sync |-> sync + 1,
                    acks |-> 1,
                    emit |-> << [type |-> "status", id |-> r.id] >>,
                    stop |-> FALSE]
              ELSE [buf |-> r.buf, last_id |-> NoneId, sync |-> 0,
                    acks |-> 0, emit |-> <<>>, stop |-> FALSE]

\* One iteration of the loop body of RadAlertHID._synchronize.  wr says
\* whether the write of _send_ack succeeds; it sits inside the try, so a
\* write that raises is handled by the except clause like a failed decode.
HidSynchronizeStep(buf, last, sync, wr) ==
    LET r == HidDecode(buf, last)
    IN CASE r.kind = "none" ->
              [buf |-> r.buf, last_id |-> r.last_id, sync |-> sync,
               acks |-> 0, emit |-> <<>>, stop |-> TRUE]
         [] r.kind = "raise" ->
              [buf |-> r.buf, last_id |-> NoneId, sync |-> 0,
               acks |-> 0, emit |-> <<>>, stop |-> FALSE]
         [] OTHER ->
              IF wr
              THEN [buf |-> r.buf, last_id |-> r.last_id, sync |-> sync + 1,
                    acks |-> 1, emit |-> <<>>, stop |-> FALSE]
              ELSE [buf |-> r.buf, last_id |-> NoneId, sync |-> 0,
                    acks |-> 0, emit |-> <<>>, stop |-> FALSE]

\* One iteration of the while loop of RadAlertHID._process.  A write of
\* _send_ack that raises is caught with the decode errors: the session is
\* desynchronized and status_callback is not reached.  na says that
\* status_callback raises NotImplementedError (a record accessor such as
\* cpm has no data on this transport): the call sits inside the same try,
\* so the except clause desynchronizes the session.
HidProcessStep(buf, last, sync, wr, na) ==
    LET r == HidDecode(buf, last)
    IN CASE r.kind = "none" ->
              [buf |-> r.buf, last_id |-> r.last_id, sync |-> sync,
               acks |-> 0, emit |-> <<>>, stop |-> TRUE]
         [] r.kind = "raise" ->
              [buf |-> r.buf, last_id |-> r.last_id, sync |-> 0,
               acks |-> 0, emit |-> <<>>, stop |-> FALSE]
         [] OTHER ->
              IF wr
              THEN [buf |-> r.buf, last_id |-> r.last_id,
                    sync |-> IF na THEN 0 ELSE sync,
                    acks |-> 1,
                    emit |-> << [type |-> "status", id |-> r.id] >>,
                    stop |-> FALSE]
              ELSE [buf |-> r.buf, last_id |-> r.last_id, sync |-> 0,
                    acks |-> 0, emit |-> <<>>, stop |-> FALSE]

\* What a read of the device returns: "S" the next status payload, "J" one
\* sent after a payload was missed, "B" a payload with an unknown mode,
\* "R" the payload of the read before (the device repeats itself until it
\* has something new) and "E" nothing.
HidStatusPayload(id) == <<10, 0, 0, 0,  id,  0, 0, 0, 0,  0,  0,  0, 0, 0, 0>>
BadHidStatusPayload(id) == <<10, 0, 0, 0,  id,  0, 0, 0, 0,  4,  0,  0, 0, 0, 0>>

ReadKinds == {"S", "J", "B", "R", "E"}

ReadPayload(kind, id, prev) ==
    CASE kind = "S" -> HidStatusPayload(id)
      [] kind = "J" -> HidStatusPayload((id + 1) % ID_MODULUS)
      [] kind = "B" -> BadHidStatusPayload(id)
      [] kind = "R" -> prev
      [] OTHER -> <<>>

ReadNextId(kind, id) ==
    CASE kind \in {"S", "B"} -> (id + 1) % ID_MODULUS
      [] kind = "J" -> (id + 2) % ID_MODULUS
      [] OTHER -> id

\* RadAlertHID.__init__
InitHID == transport = "hid" /\ InitSession

\* RadAlertHID._reset
HidReset ==
    /\ command_buffer' = <<>>
    /\ receive_buffer' = <<>>
    /\ poll_buffer' = <<>>
    /\ last_id' = NoneId
    /\ sync_count' = 0
    /\ UNCHANGED <<packet_callback, app>>

\* RadAlertHID.connect: disconnect(), then the device is opened
HidConnect ==
    /\ pc = "idle"
    /\ HidReset
    /\ peripheral' = TRUE
    /\ ResetHistory
    /\ hist' = [hist EXCEPT !.dcalls = 0, !.reclosed = FALSE,
                            !.raced = FALSE, !.wfail = FALSE,
                            !.connFailed = FALSE, !.exit = "none",
                            !.reconn = @ \/ nrec > 0, !.recent = <<>>,
                            !.same = 0, !.na = FALSE]
    /\ UNCHANGED <<transport, service, iteration, pc, deviceVars>>
    /\ UNCHANGED local

\* RadAlertHID.connect raises: disconnect() has closed the device and reset
\* the fields, then self._hiddev.open(vid, pid) fails and the device stays
\* closed
HidConnectFail ==
    /\ pc = "idle"
    /\ HidReset
    /\ peripheral' = FALSE
    /\ ResetHistory
    /\ hist' = [hist EXCEPT !.dcalls = 0, !.reclosed = FALSE,
                            !.raced = FALSE, !.wfail = FALSE,
                            !.connFailed = TRUE, !.exit = "none",
                            !.reconn = @ \/ nrec > 0, !.recent = <<>>,
                            !.same = 0, !.na = FALSE]
    /\ UNCHANGED <<transport, service, iteration, pc, deviceVars>>
    /\ UNCHANGED local

\* RadAlertHID.disconnect: self._hiddev is never None, so close() is called
\* on the device whether it is open or not
HidDisconnect ==
    /\ pc = "idle"
    /\ HidReset
    /\ peripheral' = FALSE
    /\ ResetHistory
    /\ hist' = [hist EXCEPT !.dcalls = IF @ < 2 THEN @ + 1 ELSE @,
                            !.reclosed = ~peripheral, !.wfail = FALSE,
                            !.exit = "none", !.reconn = @ \/ nrec > 0,
                            !.recent = <<>>, !.same = 0, !.na = FALSE]
    /\ UNCHANGED <<transport, service, iteration, pc, deviceVars>>
    /\ UNCHANGED local

\* RadAlertHID.spin is entered: _start(), then _wait_for_data
HidSpin ==
    /\ pc = "idle"
    /\ peripheral
    /\ pc' = "hwait"
    /\ iteration' = 0
    /\ hist' = [hist EXCEPT !.dcalls = 0, !.wfail = FALSE,
                            !.exit = "none", !.tmo = FALSE]
    /\ UNCHANGED <<hidVars, peripheral, service, command_buffer,
                   receive_buffer, last_id, sync_count, deviceVars, feedVars,
                   nrec, pair, cycleVars, packet_callback, app>>
    /\ UNCHANGED local

\* _wait_for_data returns False: the inner loop of spin is left and entered
\* again after _start()
HidTimeout ==
    /\ pc = "hwait"
    /\ iteration' = 0
    /\ hist' = [hist EXCEPT !.tmo = TRUE]
    /\ UNCHANGED <<hidVars, peripheral, service, command_buffer,
                   receive_buffer, last_id, sync_count, pc, deviceVars,
                   feedVars, nrec, pair, cycleVars, packet_callback, app>>
    /\ UNCHANGED local

\* a read of the device, or the write of _start, raises: the error leaves
\* spin(), which has no handler and no cleanup
HidTransportError ==
    /\ pc = "hwait"
    /\ pc' = "idle"
    /\ hist' = [hist EXCEPT !.exit = "transport", !.tmo = FALSE]
    /\ UNCHANGED <<hidVars, peripheral, service, command_buffer,
                   receive_buffer, last_id, sync_count, iteration,
                   deviceVars, feedVars, nrec, pair, cycleVars,
                   packet_callback, app>>
    /\ UNCHANGED local

\* The history of the reads after one more payload: run is the number of
\* payloads the session has counted towards SYNC_TARGET since it last lost
\* synchronization -- a payload that follows a gap starts a new run while
\* the session is resynchronizing and is dropped when it ends an active one
HidFeedRun(kind, n, active) ==
    CASE kind = "S" -> IF n < SYNC_TARGET THEN n + 1 ELSE n
      [] kind = "J" -> IF active THEN 0 ELSE 1
      [] kind = "B" -> 0
      [] OTHER -> n

\* RadAlertHID._poll without the comparison with the read before
HidPollNoDedup(kind) ==
    /\ pc = "hwait"
    /\ sent < MaxReads
    /\ sent' = sent + 1
    /\ dev_id' = ReadNextId(kind, dev_id)
    /\ LET bytestr == ReadPayload(kind, dev_id, poll_buffer)
           repeat == bytestr = poll_buffer
       IN /\ hist' = [hist EXCEPT
                        !.same = IF bytestr = <<>> THEN 0
                                 ELSE IF repeat THEN @ + 1 ELSE 1,
                        !.na = IF repeat THEN @ ELSE FALSE,
                        !.tmo = FALSE]
          /\ IF repeat
             THEN UNCHANGED <<run, cycleClean, expect>>
             ELSE /\ run' = HidFeedRun(kind, run, Synchronized(sync_count))
                  /\ cycleClean' = (kind = "S" /\ Synchronized(sync_count))
                  /\ expect' = << [type |-> "status", id |-> dev_id] >>
          /\ poll_buffer' = bytestr
          /\ receive_buffer' = bytestr
          /\ pc' = "hsync"
          /\ delivered' = <<>>
          /\ written' = <<>>
    /\ UNCHANGED <<transport, peripheral, service, command_buffer, last_id,
                   sync_count, iteration, before, nrec, pair, startCmds, enq,
                   packet_callback, app>>
    /\ UNCHANGED local

\* RadAlertHID._poll inside _wait_for_data: a payload equal to the one of
\* the read before is dropped, any other is handed to _on_receive, which
\* makes it the receive buffer
HidPoll(kind) ==
    /\ pc = "hwait"
    /\ sent < MaxReads
    /\ sent' = sent + 1
    /\ dev_id' = ReadNextId(kind, dev_id)
    /\ LET bytestr == ReadPayload(kind, dev_id, poll_buffer)
           repeat == bytestr = poll_buffer
       IN /\ hist' = [hist EXCEPT
                        !.same = IF bytestr = <<>> THEN 0
                                 ELSE IF repeat THEN @ + 1 ELSE 1,
                        !.na = IF repeat THEN @ ELSE FALSE,
                        !.tmo = IF repeat THEN @ ELSE FALSE]
          /\ IF repeat
             THEN UNCHANGED <<run, cycleClean, expect>>
             ELSE /\ run' = HidFeedRun(kind, run, Synchronized(sync_count))
                  /\ cycleClean' = (kind = "S" /\ Synchronized(sync_count))
                  /\ expect' = << [type |-> "status", id |-> dev_id] >>
          /\ IF bytestr = poll_buffer
             THEN UNCHANGED <<poll_buffer, receive_buffer, pc, delivered,
                              written>>
             ELSE /\ poll_buffer' = bytestr
                  /\ receive_buffer' = bytestr
                  /\ pc' = "hsync"
                  /\ delivered' = <<>>
                  /\ written' = <<>>
    /\ UNCHANGED <<transport, peripheral, service, command_buffer, last_id,
                   sync_count, iteration, before, nrec, pair, startCmds, enq,
                   packet_callback, app>>
    /\ UNCHANGED local

\* a successful decode is followed by a write to the device
HidWrites(buf, last) == HidDecode(buf, last).kind = "status"

\* RadAlertHID._synchronize: the loop test and one iteration of the loop;
\* _send_ack writes the ack to the device at once, wr says with what success
HidSyncStep(wr) ==
    /\ pc = "hsync"
    /\ IF Synchronized(sync_count)
       THEN /\ wr
            /\ pc' = "hproc"
            /\ hist' = [hist EXCEPT !.pass = 0]
            /\ UNCHANGED <<receive_buffer, last_id, sync_count, nrec, pair,
                           delivered, written, run, cycleClean>>
       ELSE LET r == HidSynchronizeStep(receive_buffer, last_id, sync_count,
                                        wr)
            IN /\ ~wr => HidWrites(receive_buffer, last_id)
               /\ hist' = [hist EXCEPT !.wfail = @ \/ ~wr,
                                       !.pass = IF r.stop THEN 0 ELSE 1 - @]
               /\ run' = IF wr THEN run ELSE 0
               /\ UNCHANGED cycleClean
               /\ receive_buffer' = r.buf
               /\ last_id' = r.last_id
               /\ sync_count' = r.sync
               /\ written' = written \o Acks(r.acks)
               /\ delivered' = delivered \o r.emit
               /\ nrec' = nrec + Len(r.emit)
               /\ pair' = NextPair(pair, r)
               /\ pc' = IF r.stop THEN "hproc" ELSE "hsync"
    /\ UNCHANGED <<hidVars, peripheral, service, command_buffer, iteration,
                   deviceVars, before, expect, startCmds, enq,
                   packet_callback, app>>
    /\ UNCHANGED local

\* RadAlertHID._process: the loop test and one iteration of the while loop;
\* na says that the client's status_callback raises NotImplementedError
HidProcStep(wr, na) ==
    /\ pc = "hproc"
    /\ IF ~Synchronized(sync_count)
       THEN /\ wr
            /\ ~na
            /\ pc' = "hdone"
            /\ UNCHANGED <<receive_buffer, last_id, sync_count, nrec, pair,
                           delivered, written, hist, run, cycleClean>>
       ELSE LET r == HidProcessStep(receive_buffer, last_id, sync_count, wr,
                                    na)
            IN /\ ~wr => HidWrites(receive_buffer, last_id)
               /\ na => (wr /\ HidWrites(receive_buffer, last_id))
               /\ hist' = [hist EXCEPT !.wfail = @ \/ ~wr, !.na = @ \/ na]
               /\ run' = IF wr /\ ~na THEN run ELSE 0
               /\ UNCHANGED cycleClean
               /\ receive_buffer' = r.buf
               /\ last_id' = r.last_id
               /\ sync_count' = r.sync
               /\ written' = written \o Acks(r.acks)
               /\ delivered' = delivered \o r.emit
               /\ nrec' = nrec + Len(r.emit)
               /\ pair' = NextPair(pair, r)
               /\ pc' = IF r.stop THEN "hdone" ELSE "hproc"
    /\ UNCHANGED <<hidVars, peripheral, service, command_buffer, iteration,
                   deviceVars, before, expect, startCmds, enq,
                   packet_callback, app>>
    /\ UNCHANGED local

\* what trigger_query does when spin calls it: "ok", the feature report is
\* read, _START is written and the 64 bytes pass RadAlertHIDQuery._validate;
\* "invalid", they do not pass it; "error", get_feature_report or the write
\* of _START raises
QueryOutcomes == {"ok", "invalid", "error"}

\* _wait_for_data returns True: spin counts the payload and, on every
\* fifth, fetches a query with trigger_query.  Whatever trigger_query
\* raises leaves spin(), and no query is handed to query_callback.
HidReturn(res) ==
    /\ pc = "hdone"
    /\ iteration' = iteration + 1
    /\ IF (iteration + 1) % QUERY_PERIOD = 0
       THEN CASE res = "ok" ->
                 /\ delivered' =
                       Append(delivered, [type |-> "query", id |-> NoneId])
                 /\ pc' = "hwait"
                 /\ UNCHANGED hist
              [] res = "invalid" ->
                 /\ pc' = "idle"
                 /\ hist' = [hist EXCEPT !.exit = "ValueError"]
                 /\ UNCHANGED delivered
              [] OTHER ->
                 /\ pc' = "idle"
                 /\ hist' = [hist EXCEPT !.exit = "transport"]
                 /\ UNCHANGED delivered
       ELSE /\ res = "ok"
            /\ pc' = "hwait"
            /\ UNCHANGED <<delivered, hist>>
    /\ UNCHANGED <<hidVars, peripheral, service, command_buffer,
                   receive_buffer, last_id, sync_count, deviceVars, feedVars,
                   nrec, pair, cycleClean, expect, written, startCmds, enq,
                   packet_callback, app>>
    /\ UNCHANGED local

NextHID ==
    \/ HidConnect
    \/ HidConnectFail
    \/ HidDisconnect
    \/ HidSpin
    \/ HidTimeout
    \/ HidTransportError
    \/ \E kind \in ReadKinds : HidPoll(kind)
    \/ \E wr \in BOOLEAN : HidSyncStep(wr)
    \/ \E wr, na \in BOOLEAN : HidProcStep(wr, na)
    \/ \E res \in QueryOutcomes : HidReturn(res)

SpecHID == InitHID /\ [][NextHID]_vars

(***************************************************************************)
(* The same session on a device that takes every write of _send_ack.       *)
(***************************************************************************)
NextHIDFeed ==
    \/ HidConnect
    \/ HidConnectFail
    \/ HidDisconnect
    \/ HidSpin
    \/ HidTimeout
    \/ HidTransportError
    \/ \E kind \in ReadKinds : HidPoll(kind)
    \/ HidSyncStep(TRUE)
    \/ \E na \in BOOLEAN : HidProcStep(TRUE, na)
    \/ \E res \in QueryOutcomes : HidReturn(res)

SpecHIDFeed == InitHID /\ [][NextHIDFeed]_vars

(***************************************************************************)
(* A session of either class.                                              *)
(***************************************************************************)
(***************************************************************************)
(* The receive handlers run to their end.  _on_receive is called inside    *)
(* waitForNotifications (BLE) or _wait_for_data (HID) on the thread that   *)
(* called spin(), and nothing suspends it: once a chunk was handed over,   *)
(* the next statement of the handler is executed.                          *)
(***************************************************************************)
HandlerStep ==
    \/ SyncStep
    \/ ProcStep(FALSE)
    \/ FlushStep
    \/ NotificationDone

LiveShapes == ChunkShapes \cup { <<"H">>, <<"S", "H">> }

NextLive ==
    \/ Connect
    \/ Spin
    \/ \E shape \in LiveShapes : Notify(shape, MaxLive)
    \/ SyncStep
    \/ ProcStep(FALSE)
    \/ FlushStep
    \/ NotificationDone

SpecLive == Init /\ [][NextLive]_vars /\ WF_vars(HandlerStep)

HidHandlerStep ==
    \/ \E wr \in BOOLEAN : HidSyncStep(wr)
    \/ \E wr, na \in BOOLEAN : HidProcStep(wr, na)

SpecHIDLive == InitHID /\ [][NextHID]_vars /\ WF_vars(HidHandlerStep)

InitAny == transport \in {"ble", "hid"} /\ InitSession

NextAny ==
    \/ transport = "ble" /\ Next
    \/ transport = "hid" /\ NextHID

SpecAny == InitAny /\ [][NextAny]_vars

(***************************************************************************)
(* A session of either class on a transport whose writes can fail.         *)
(***************************************************************************)
NextFault ==
    \/ /\ transport = "ble"
       /\ \/ Connect
          \/ Spin
          \/ \E shape \in ChunkShapes : Notify(shape, MaxPackets)
          \/ SyncStep
          \/ ProcStep(FALSE)
          \/ FlushStep
          \/ WriteError
          \/ NotificationDone
    \/ transport = "hid" /\ NextHID

SpecFault == InitAny /\ [][NextFault]_vars

(***************************************************************************)
(* trigger_query() called by a second thread while spin() runs.  The       *)
(* command buffer is a Python list: append (the other thread) and pop(0)   *)
(* (the flush loop of _on_receive) are single operations of the            *)
(* interpreter that never overlap, so the two threads interleave between   *)
(* them, in either order.  An append that comes after the last len() test  *)
(* of the flush loop, or while spin() is inside waitForNotifications,      *)
(* meets the session at "wait": the command stays queued until the flush   *)
(* of the next notification.                                               *)
(***************************************************************************)

\* trigger_query() that assigns a new list instead of appending
TriggerQueryThreadReplace ==
    /\ pc \in {"wait", "sync", "proc", "flush"}
    /\ CountOf(enq, CMD_QUERY) < MaxCmd
    /\ command_buffer' = <<CMD_QUERY>>
    /\ enq' = Append(enq, CMD_QUERY)
    /\ hist' = [hist EXCEPT !.dcalls = 0, !.raced = (pc = "flush")]
    /\ UNCHANGED <<hidVars, peripheral, service, receive_buffer, last_id,
                   sync_count, iteration, pc, deviceVars, feedVars, nrec,
                   pair, cycleClean, expect, delivered, written, startCmds,
                   packet_callback, app>>
    /\ UNCHANGED local

\* RadAlertLE.trigger_query on another thread, between two steps of
\* spin(); raced records that the flush loop was running
TriggerQueryThread ==
    /\ pc \in {"wait", "sync", "proc", "flush"}
    /\ CountOf(enq, CMD_QUERY) < MaxCmd
    /\ command_buffer' = Append(command_buffer, CMD_QUERY)
    /\ enq' = Append(enq, CMD_QUERY)
    /\ hist' = [hist EXCEPT !.dcalls = 0, !.raced = (pc = "flush")]
    /\ UNCHANGED <<hidVars, peripheral, service, receive_buffer, last_id,
                   sync_count, iteration, pc, deviceVars, feedVars, nrec,
                   pair, cycleClean, expect, delivered, written, startCmds,
                   packet_callback, app>>
    /\ UNCHANGED local

NextConc ==
    \/ Connect
    \/ Spin
    \/ \E shape \in ChunkShapes : Notify(shape, MaxPackets)
    \/ SyncStep
    \/ ProcStep(FALSE)
    \/ FlushStep
    \/ NotificationDone
    \/ TriggerQueryThread

SpecConc == Init /\ [][NextConc]_vars

(***************************************************************************)
(* The decoders as functions of one 16-byte frame.  A frame is packed the  *)
(* way the device packs it, from field values chosen around the limits of  *)
(* the validators; a connected session that has received exactly that      *)
(* frame decodes it.  hist.frame keeps the field values the frame was      *)
(* packed from, hist.rec what the client reads from the record.            *)
(***************************************************************************)

\* little-endian encodings of the device
LE16(x) == <<x % 256, x \div 256>>
LE32(x) == LE16(x.lo) \o LE16(x.hi)

\* field values of the frames under test
CpsValues ==
    { W32(0), W32(10), W32(MAX_CPS), W32(MAX_CPS + 1), W32(16777215),
      W32(2147483647), [hi |-> 32768, lo |-> 0], [hi |-> 65535, lo |-> 65534] }
ValueValues == { W32(0), [hi |-> 32768, lo |-> 0] }
ModeValues == {0, 1, 2, 3, 4, 20, 23, 256}
CpmValues == {0, 48, 1070, 65535, 65536, MAX_CPM, MAX_CPM + 1, 16777215}
StatusBytes == 0..127
AlarmValues == {0, 1070, 65535}
DeadValues == {0, 1, 256, 11111}
ConvValues == {0, MIN_CONV - 1, MIN_CONV, 1070, MAX_CONV, MAX_CONV + 1,
               65535}

StatusFields ==
    [kind : {"status"}, cps : CpsValues, value : ValueValues,
     mode : ModeValues,
     cpm : CpmValues, unk1 : {0}, status : StatusBytes, id : {66}]

QueryFields ==
    [kind : {"query"}, alarm : AlarmValues, unk2 : {0}, dead : DeadValues,
     conv : ConvValues]

\* the 16 bytes the device sends for the field values f
PackFrame(f) ==
    IF f.kind = "status"
    THEN LE32(f.cps) \o LE32(f.value) \o LE16(f.mode)
           \o LE16(f.cpm % 65536)
           \o <<f.cpm \div 65536, f.unk1, f.status, f.id>>
    ELSE <<255, 255, 255, 255>> \o LE16(f.alarm) \o LE16(f.unk2)
           \o LE16(f.dead) \o LE16(f.conv) \o <<0, 0, 255, 255>>

\* the alarm flags and the power level in the status byte of the device
FlagSet(f) == (f.status \div 16) % 2 = 1
FlagAlerting(f) == (f.status \div 8) % 2 = 1
FlagSilenced(f) == (f.status \div 32) % 2 = 1
PowerLevel(f) == f.status % 8

\* alarm_state that tests the flags in the order set, alerting, silenced
AlarmStateSetFirst(d) ==
    IF d.alarm_set THEN "SET"
    ELSE IF d.alarm_alerting THEN "ALERTING"
    ELSE IF d.alarm_silenced THEN "SILENCED"
    ELSE "DISABLED"

\* RadAlertLEStatus.alarm_state
AlarmState(d) ==
    IF d.alarm_silenced THEN "SILENCED"
    ELSE IF d.alarm_alerting THEN "ALERTING"
    ELSE IF d.alarm_set THEN "SET"
    ELSE "DISABLED"

\* the fields of a RadAlertLEStatus built from packet p, with the
\* alarm_state the client reads
StatusRecord(p) ==
    LET d == StatusUnpack(p)
    IN [kind |-> "status", cps |-> d.cps, value |-> d.value,
        mode |-> d.mode, cpm |-> d.cpm, id |-> d.id, power |-> d.power,
        alarm_set |-> d.alarm_set, alarm_alerting |-> d.alarm_alerting,
        alarm_silenced |-> d.alarm_silenced, unknown |-> d.unknown,
        alarm_state |-> AlarmState(d)]

\* the fields of a RadAlertLEQuery built from packet p: alarm_level,
\* the reciprocal that deadtime divides by, and conversion_factor
QueryRecord(p) ==
    LET d == QueryUnpack(p)
    IN [kind |-> "query", alarm |-> d.alarm, dead |-> d.dead,
        conv |-> d.conv]

\* a connected session whose receive buffer holds one frame
InitFrame ==
    \E f \in StatusFields \cup QueryFields :
        /\ transport = "ble"
        /\ poll_buffer = <<>>
        /\ peripheral = TRUE
        /\ service = TRUE
        /\ command_buffer = <<>>
        /\ receive_buffer = PackFrame(f)
        /\ last_id = NoneId
        /\ sync_count = 0
        /\ iteration = 0
        /\ pc = "frame"
        /\ dev_id \in StartIds
        /\ sent = 0
        /\ run = 0
        /\ before = "other"
        /\ nrec = 0
        /\ pair = NoPair
        /\ cycleClean = FALSE
        /\ expect = <<>>
        /\ delivered = <<>>
        /\ written = <<>>
        /\ startCmds = <<>>
        /\ enq = <<>>
        /\ packet_callback = ClientCallback
        /\ hist = [InitHist EXCEPT !.frame = f]
        /\ app = NoApp
        /\ local = NoLocal

\* one call of RadAlertLE._decode on the frame
DecodeFrame ==
    /\ pc = "frame"
    /\ LET r == Decode(receive_buffer, last_id)
           p == TakeBytes(receive_buffer, PACKET_LEN)
       IN /\ pc' = IF r.kind = "raise" THEN "rejected" ELSE "decoded"
          /\ last_id' = r.last_id
          /\ hist' = [hist EXCEPT
                        !.rec = CASE r.kind = "status" -> StatusRecord(p)
                                  [] r.kind = "query" -> QueryRecord(p)
                                  [] OTHER -> [kind |-> "none"]]
    /\ UNCHANGED <<hidVars, peripheral, service, command_buffer,
                   receive_buffer, sync_count, iteration, deviceVars,
                   feedVars, nrec, pair, cycleVars, packet_callback, app>>
    /\ UNCHANGED local

NextFrame == DecodeFrame

SpecFrame == InitFrame /\ [][NextFrame]_vars

(***************************************************************************)
(* radalert/util/filter.py and the log backend of the example logger.      *)
(* A number is kept as the fraction num/den the Python expression stands   *)
(* for (x / 60, sum / len), so that no rounding enters the model.  The     *)
(* decay coefficient of an IIR filter is exp(-1/n), not a fraction: the    *)
(* value of an IIR filter is kept as the value it started from and the     *)
(* inputs mixed into it since.                                             *)
(***************************************************************************)
Num(n) == [k |-> "num", num |-> n, den |-> 1]
NoValue == [k |-> "None"]
ValueError == [k |-> "ValueError"]

\* a + b, a / n, a < b
NumAdd(a, b) ==
    [k |-> "num", num |-> a.num * b.den + b.num * a.den, den |-> a.den * b.den]
NumDiv(a, n) == [k |-> "num", num |-> a.num, den |-> a.den * n]
NumLess(a, b) == a.num * b.den < b.num * a.den

\* the builtins sum, max and min on a non-empty list, left to right
RECURSIVE SumOf(_)
SumOf(values) ==
    IF values = <<>> THEN Num(0)
    ELSE NumAdd(SumOf(SubSeq(values, 1, Len(values) - 1)),
                values[Len(values)])

RECURSIVE MaxOf(_)
MaxOf(values) ==
    IF Len(values) = 1 THEN values[1]
    ELSE LET m == MaxOf(SubSeq(values, 1, Len(values) - 1))
             x == values[Len(values)]
         IN IF NumLess(m, x) THEN x ELSE m

RECURSIVE MinOf(_)
MinOf(values) ==
    IF Len(values) = 1 THEN values[1]
    ELSE LET m == MinOf(SubSeq(values, 1, Len(values) - 1))
             x == values[Len(values)]
         IN IF NumLess(x, m) THEN x ELSE m

\* mean_arithmetic
mean_arithmetic(values) ==
    IF Len(values) = 0 THEN NoValue
    ELSE NumDiv(SumOf(values), Len(values))

\* the functions a FIRFilter is built with in this repository
Reducers == {"mean_arithmetic", "sum", "max", "min"}

\* self.function(self.values): sum of an empty list is 0, max and min of
\* an empty list raise ValueError
Apply(function, values) ==
    CASE function = "mean_arithmetic" -> mean_arithmetic(values)
      [] function = "sum" -> SumOf(values)
      [] function = "max" ->
            IF values = <<>> THEN ValueError ELSE MaxOf(values)
      [] OTHER ->
            IF values = <<>> THEN ValueError ELSE MinOf(values)

\* FIRFilter.__init__
FIRFilter(size, function) ==
    [size |-> size, values |-> <<>>, function |-> function]

\* FIRFilter.value
FirValue(f) == Apply(f.function, f.values)

\* FIRFilter.iterate that evicts as soon as the window is full
FirIterateEvictEarly(f, x) ==
    LET v == Append(f.values, x)
    IN [f EXCEPT !.values = IF Len(v) >= f.size THEN Tail(v) ELSE v]

\* FIRFilter.iterate: the filter after the call (the call returns its value)
FirIterate(f, x) ==
    LET v == Append(f.values, x)
    IN [f EXCEPT !.values = IF Len(v) > f.size THEN Tail(v) ELSE v]

\* IIRFilter.__init__
IIRFilter == [value |-> NoValue]

\* IIRFilter.iterate: a filter without a value starts from the input, then
\* the input is mixed in
IirIterate(f, x) ==
    IF f.value.k = "None"
    THEN [value |-> [k |-> "iir", init |-> x, mixed |-> <<x>>]]
    ELSE [value |-> [f.value EXCEPT !.mixed = Append(@, x)]]

\* the values pushed into the filter under test
Samples == {1, 2, 3}

\* a client that holds one FIRFilter; result is what its last call
\* returned, trace the values pushed so far
InitFilter ==
    /\ transport = "ble"
    /\ InitSessionVars
    /\ \E size \in 1..MaxSize, function \in Reducers :
          app = [kind |-> "filter", filter |-> FIRFilter(size, function),
                 result |-> [op |-> "none", val |-> NoValue],
                 trace |-> <<>>]

\* the client calls FIRFilter.iterate(x)
FilterIterate(x) ==
    /\ app.kind = "filter"
    /\ Len(app.trace) < MaxPush
    /\ LET f == FirIterate(app.filter, Num(x))
       IN app' = [app EXCEPT !.filter = f,
                             !.result = [op |-> "iterate",
                                         val |-> FirValue(f)],
                             !.trace = Append(@, x)]
    /\ UNCHANGED <<sessionVars, deviceVars, feedVars, nrec, pair, cycleVars,
                   packet_callback, hist>>
    /\ UNCHANGED local

\* the client reads FIRFilter.value
FilterValue ==
    /\ app.kind = "filter"
    /\ app' = [app EXCEPT !.result = [op |-> "value",
                                      val |-> FirValue(app.filter)]]
    /\ UNCHANGED <<sessionVars, deviceVars, feedVars, nrec, pair, cycleVars,
                   packet_callback, hist>>
    /\ UNCHANGED local

NextFilter ==
    \/ \E x \in Samples : FilterIterate(x)
    \/ FilterValue

SpecFilter == InitFilter /\ [][NextFilter]_vars

\* LogBackend.__init__ with its default sizes; the time constants of the
\* two IIR averages only set their decay coefficients
ACTUAL_SAMPLES == 60
AVERAGE_SAMPLES == 300
MINMAX_SAMPLES == 300

LogBackend ==
    [kind |-> "backend",
     actuals |-> FIRFilter(ACTUAL_SAMPLES, "sum"),
     averages |-> << FIRFilter(AVERAGE_SAMPLES, "mean_arithmetic"),
                     IIRFilter, IIRFilter >>,
     maximum |-> FIRFilter(MINMAX_SAMPLES, "max"),
     minimum |-> FIRFilter(MINMAX_SAMPLES, "min"),
     trace |-> <<>>]

\* the cps and cpm of the status records handed to the backend
CpsSamples == {0, 2}
CpmSamples == {0, 60, 90}

InitLog ==
    /\ transport = "ble"
    /\ InitSessionVars
    /\ app = LogBackend

\* LogBackend._on_data for a status record with the given cps and cpm.
\* The second test before the min/max filters looks at maximum again.
OnData(cps, cpm) ==
    /\ app.kind = "backend"
    /\ Len(app.trace) < MaxRecords
    /\ LET seed == NumDiv(Num(cpm), 60)
           a0 == app.averages[1]
           a1 == app.averages[2]
           a2 == app.averages[3]
           s0 == IF FirValue(a0).k = "None" THEN FirIterate(a0, seed) ELSE a0
           s1 == IF a1.value.k = "None" THEN IirIterate(a1, seed) ELSE a1
           s2 == IF a2.value.k = "None" THEN IirIterate(a2, seed) ELSE a2
           n0 == FirIterate(s0, Num(cps))
           m1 == IF Len(app.maximum.values) = 0
                 THEN FirIterate(app.maximum, seed) ELSE app.maximum
           m2 == IF Len(m1.values) = 0 THEN FirIterate(m1, seed) ELSE m1
       IN app' = [app EXCEPT
                    !.actuals = FirIterate(@, Num(cps)),
                    !.averages = << n0, IirIterate(s1, Num(cps)),
                                    IirIterate(s2, Num(cps)) >>,
                    !.maximum = FirIterate(m2, FirValue(n0)),
                    !.minimum = FirIterate(@, FirValue(n0)),
                    !.trace = Append(@, [cps |-> cps, cpm |-> cpm])]
    /\ UNCHANGED <<sessionVars, deviceVars, feedVars, nrec, pair, cycleVars,
                   packet_callback, hist>>
    /\ UNCHANGED local

NextLog == \E cps \in CpsSamples, cpm \in CpmSamples : OnData(cps, cpm)

SpecLog == InitLog /\ [][NextLog]_vars

TypeOK ==
    /\ transport \in {"ble", "hid"}
    /\ peripheral \in BOOLEAN
    /\ service \in BOOLEAN
    /\ \A i \in 1..Len(receive_buffer) : receive_buffer[i] \in Byte
    /\ \A i \in 1..Len(command_buffer) :
          command_buffer[i] \in {CMD_QUERY, CMD_ACK, CMD_TERMINATE}
    /\ last_id \in Byte \cup {NoneId}
    /\ sync_count \in 0..SYNC_TARGET
    /\ pc \in {"idle", "wait", "sync", "proc", "flush", "unblock",
              "recv", "decode", "take", "build", "idtest", "idcmp",
              "idjump", "idset", "string", "count", "sack", "sdrop", "szero",
              "sclear", "slice", "desync", "pack", "call", "pop", "send",
              "write", "hwait", "hsync", "hproc", "hdone", "frame",
              "decoded", "rejected"}
    /\ packet_callback \in {ClientCallback, NoCallback}
    /\ hist.dcalls \in 0..2
    /\ hist.exit \in {"none", "transport", "ValueError", "RuntimeError",
                      "AttributeError", "IndexError"}
    /\ Len(hist.recent) <= QUERY_PERIOD

(***************************************************************************)
(* Claims.                                                                 *)
(***************************************************************************)
IsPrefix(s, u) == Len(s) <= Len(u) /\ s = SubSeq(u, 1, Len(s))

\* C1: two status records handed to the callback one after the other, with
\* no drop to SYNCING between them, carry ids i and (i + 1) mod 256.
C1_ConsecutiveIds ==
    pair[1] # NoneId => pair[2] = (pair[1] + 1) % ID_MODULUS

\* C1 witness: the ids 255 and 0 were delivered in a row
C1_Witness == pair = <<255, 0>> /\ pc = "wait"

\* the same on a HID session
C1_WitnessHID == transport = "hid" /\ pair[1] # NoneId /\ pc = "hwait"

\* C2 (as claimed): a freshly connected session that was fed five valid
\* in-order status packets, one per notification, is ACTIVE.
C2_FiveValidPacketsActivate ==
    (before = "connect" /\ run = SYNC_TARGET /\ pc = "wait")
        => Synchronized(sync_count)

\* C3 (as claimed): after garbage bytes were inserted behind a valid packet,
\* the session is ACTIVE once five further valid packets were processed.
C3_RecoversAfterGarbage ==
    (before = "pktG" /\ run = SYNC_TARGET /\ pc = "wait")
        => Synchronized(sync_count)

\* C4 (as claimed): a fresh session fed the byte AA and then valid in-order
\* status packets has sync_count = 1 after the first, and after the fifth it
\* is ACTIVE and has delivered exactly 5 records.
C4_FiveRecordsAfterGarbage ==
    /\ (before = "connectG" /\ run = 1 /\ pc = "wait") => sync_count = 1
    /\ (before = "connectG" /\ run = SYNC_TARGET /\ pc = "wait")
          => (Synchronized(sync_count) /\ nrec = 5)

\* C5: a chunk of whole valid packets that reaches an ACTIVE session is
\* delivered packet by packet, each once, in arrival order.
C5_InOrderDelivery ==
    cycleClean =>
        /\ IsPrefix(delivered, expect)
        /\ pc \notin {"sync", "proc"} => delivered = expect

\* C5 witness: query, status k, status k + 1 were delivered from one chunk
C5_Witness ==
    /\ cycleClean /\ pc = "wait" /\ Len(delivered) = 3
    /\ delivered[1].type = "query"
    /\ delivered[2].type = "status"
    /\ delivered[3] = [type |-> "status",
                       id |-> (delivered[2].id + 1) % ID_MODULUS]

\* C6 (as claimed): a status packet that skips an id in an ACTIVE session is
\* not delivered, the session drops to SYNCING with last_id cleared, and
\* five further in-order status packets make it ACTIVE again.
C6_JumpThenReactivate ==
    /\ (before = "jump" /\ run = 0 /\ pc = "wait")
          => (sync_count = 0 /\ last_id = NoneId /\ delivered = <<>>)
    /\ (before = "jump" /\ run = SYNC_TARGET /\ pc = "wait")
          => Synchronized(sync_count)

\* C7: in an ACTIVE session a failed decode of the leading 16 bytes drops
\* the session to SYNCING, leaves the receive buffer as it was and delivers
\* no record.
C7_FailedDecodeKeepsBuffer ==
    [][(/\ pc = "proc"
        /\ Synchronized(sync_count)
        /\ Decode(receive_buffer, last_id).kind = "raise")
       => (/\ receive_buffer' = receive_buffer
           /\ sync_count' = 0
           /\ delivered' = delivered
           /\ nrec' = nrec)]_vars

\* C7 witness: _process was left by a failed decode, the packet still there
C7_Witness ==
    /\ pc = "flush" /\ sync_count = 0 /\ Len(receive_buffer) >= PACKET_LEN
    /\ Decode(receive_buffer, NoneId).kind = "raise"

\* C8: in a SYNCING session a failed decode removes exactly the first byte
\* of the receive buffer and resets sync_count and last_id; a successful
\* one adds one to sync_count and enqueues one ack.
C8_SyncStepEffect ==
    [][(pc = "sync" /\ ~Synchronized(sync_count)) =>
       LET k == Decode(receive_buffer, last_id).kind
       IN /\ k = "raise" =>
                /\ receive_buffer' = Tail(receive_buffer)
                /\ sync_count' = 0
                /\ last_id' = NoneId
                /\ command_buffer' = command_buffer
          /\ k \in {"status", "query"} =>
                /\ sync_count' = sync_count + 1
                /\ command_buffer' = Append(command_buffer, CMD_ACK)]_vars

\* C8 witness: a packet was decoded (one ack) and the next attempt failed
\* (a 16-byte packet lost its first byte, the count is back to 0)
C8_Witness ==
    /\ pc = "sync" /\ sync_count = 0 /\ last_id = NoneId
    /\ Len(receive_buffer) = PACKET_LEN - 1
    /\ CountOf(command_buffer, CMD_ACK) = 1

\* C9: in a session that connect() has set up (self._service is set),
\* commands are written in the order they were enqueued, each once, so a
\* query pending when a chunk arrives is written before the acks of that
\* chunk.
C9_CommandsInOrder ==
    service =>
        /\ enq = written \o command_buffer
        /\ \A i \in 1..Len(written) :
              i <= Len(startCmds) => written[i] = startCmds[i]

\* C9 witness: a query enqueued before the chunk was written, then an ack
C9_Witness ==
    /\ service /\ pc = "wait" /\ startCmds = <<CMD_QUERY>> /\ Len(written) >= 2
    /\ written[1] = CMD_QUERY /\ written[2] = CMD_ACK

\* C10 (as claimed): the flush that follows a chunk of whole valid packets
\* in an ACTIVE session writes exactly one ack.
C10_OneAckPerChunk ==
    (service /\ cycleClean /\ pc = "wait") => CountOf(written, CMD_ACK) = 1

\* C10 (amended): in a session that connect() has set up, that flush writes
\* one ack per packet of the chunk and one more, for the pass of _process
\* that finds the buffer empty.
C10_AckPerPacketPlusOne ==
    (service /\ cycleClean /\ pc = "wait")
        => CountOf(written, CMD_ACK) = Len(expect) + 1

\* C10 witness: query + status + status was answered by four acks
C10_Witness ==
    /\ service /\ cycleClean /\ pc = "wait" /\ Len(expect) = 3
    /\ expect[1].type = "query"
    /\ CountOf(written, CMD_ACK) = 4

\* a session after _reset with no open transport
Closed ==
    /\ ~peripheral
    /\ ~service
    /\ command_buffer = <<>>
    /\ receive_buffer = <<>>
    /\ last_id = NoneId
    /\ sync_count = 0

\* C11 (as claimed): when trigger_query() was called from the callback while
\* a chunk was processed, the flush of that cycle writes exactly one query
\* and writes it before every ack.
C11_QueryBeforeAcks ==
    (/\ pc = "flush" /\ command_buffer = <<>>
     /\ CountOf(enq, CMD_QUERY) > CountOf(startCmds, CMD_QUERY))
    => /\ CountOf(written, CMD_QUERY) = 1
       /\ \A i \in 1..Len(written) :
             written[i] = CMD_ACK
                => \E j \in 1..(i - 1) : written[j] = CMD_QUERY

\* C12: within a receive cycle nothing is written to the transport while
\* _process is still running, so every record the cycle delivers was
\* delivered before the first write; for a chunk of whole valid packets in
\* an ACTIVE session these are all its records.
C12_NoWriteBeforeDelivery ==
    written # <<>> =>
        /\ pc \notin {"sync", "proc"}
        /\ cycleClean => delivered = expect

\* C12 witness: the first command of a cycle is written after the two
\* records of its chunk were delivered
C12_Witness ==
    /\ pc = "flush" /\ cycleClean /\ Len(written) = 1
    /\ Len(delivered) = 2 /\ delivered = expect

\* C13 (as claimed): of the last five notifications spin() counted, exactly
\* one was followed by an auto-enqueued query, receive timeouts between
\* them or not.
C13_OnePerFive ==
    (pc = "wait" /\ Len(hist.recent) = QUERY_PERIOD)
        => CountOf(hist.recent, "Q") = 1

\* C13 (amended): the same for five notifications with no receive timeout
\* between them (iteration counts the notifications since the last one).
C13_OnePerFiveNoTimeout ==
    (pc = "wait" /\ Len(hist.recent) = QUERY_PERIOD
     /\ iteration >= QUERY_PERIOD)
        => CountOf(hist.recent, "Q") = 1

\* C13 witness: seven notifications without a timeout, the query after the
\* fifth
C13_Witness ==
    /\ pc = "wait" /\ iteration = 7
    /\ hist.recent = <<"N", "N", "Q", "N", "N">>

\* C14 (as claimed): after disconnect() the session is closed and reset, and
\* a second disconnect() in a row does not close the transport again.
C14_DisconnectIdempotent ==
    hist.dcalls >= 1 =>
        /\ Closed
        /\ hist.dcalls = 2 => ~hist.reclosed

\* C15 (as claimed): when disconnect() ran on another thread while spin()
\* was running, spin() ends with the error of the closed transport and the
\* session is left closed and reset.
C15_AsyncDisconnectUnwinds ==
    (hist.raced /\ pc = "idle" /\ hist.dpc = "idle")
        => (hist.exit = "transport" /\ Closed)

\* C16: the callback the client registered is still the session's callback
\* after any sequence of connect(), disconnect(), transport errors and
\* resynchronizations.
C16_CallbackKept == packet_callback = ClientCallback

\* C16 witness: a session that delivered records, was connected again and
\* delivers records again
C16_Witness ==
    hist.reconn /\ nrec >= 1 /\ packet_callback = ClientCallback

\* C17 (as claimed): when spin() ended with a transport error the session
\* is closed and reset.
C17_ErrorClosesSession ==
    (pc = "idle" /\ hist.exit = "transport") => Closed

\* C18 (as claimed): spin() ends through a transport error only, never
\* through a decode failure.
C18_OnlyTransportErrorsLeaveSpin ==
    hist.exit \in {"none", "transport"}

\* C19 (as claimed): a write to the transport that failed has ended spin()
\* with the transport error.
C19_WriteFailureSurfaces ==
    hist.wfail => (pc = "idle" /\ hist.exit = "transport")

\* C20 (as claimed): after a connect() that raised, the session holds no
\* transport handle and spin() is not running on it.
C20_FailedConnectLeavesClosed ==
    hist.connFailed => (~peripheral /\ ~service /\ pc = "idle")

\* the status records among the records handed to the client
StatusRecords(recs) == SelectSeq(recs, LAMBDA r : r.type = "status")

C22_FiveReadsActivate ==
    (transport = "hid" /\ pc = "hwait") => sync_count = run

\* C22 witness: five payloads in a row were read and the session is ACTIVE
\* without having delivered a record
C22_Witness ==
    /\ transport = "hid" /\ pc = "hwait"
    /\ run = SYNC_TARGET
    /\ Synchronized(sync_count)
    /\ sent = SYNC_TARGET
    /\ nrec = 0

\* C23 (as claimed): when the client's callback raised because a record
\* accessor has no data on this transport, the session is in the state it
\* would be in had the callback returned: still ACTIVE.
C23_CallbackFailureKeepsState ==
    (transport = "hid" /\ hist.na /\ pc \in {"hproc", "hdone"})
        => Synchronized(sync_count)

\* C24: with trigger_query() called by another thread while the handler
\* of a notification decodes or flushes, every command that was enqueued
\* is either written to the device once or still waiting in the command
\* buffer: none is lost and none is written twice.
C24_EachCommandOnce ==
    \A c \in {CMD_QUERY, CMD_ACK, CMD_TERMINATE} :
        CountOf(enq, c) = CountOf(written, c) + CountOf(command_buffer, c)

\* C24 witness: a query enqueued by the other thread while the flush loop
\* was running has been written after the acks, and the buffer is empty
C24_Witness ==
    /\ hist.raced
    /\ pc = "flush"
    /\ command_buffer = <<>>
    /\ CountOf(startCmds, CMD_QUERY) = 0
    /\ Len(written) >= 2
    /\ written[Len(written)] = CMD_QUERY
    /\ written[1] = CMD_ACK

\* the record r is what the decoder makes of the packet-sized slice at the
\* head of the receive buffer, and that slice passes its validator
FromValidSlice(r) ==
    IF transport = "ble"
    THEN /\ Len(receive_buffer) >= PACKET_LEN
         /\ LET p == TakeBytes(receive_buffer, PACKET_LEN)
            IN IF IsQueryHeader(p)
               THEN /\ r.type = "query"
                    /\ QueryValidate(QueryUnpack(p))
               ELSE /\ r.type = "status"
                    /\ StatusValidate(StatusUnpack(p))
                    /\ r.id = p[PACKET_LEN]
    ELSE r.type = "status" =>
            /\ Len(receive_buffer) = HID_STATUS_LEN
            /\ HidStatusValidate(HidStatusUnpack(receive_buffer))
            /\ r.id = HidStatusUnpack(receive_buffer).id

\* C25: every step that hands a record to the client hands over one
\* record, decoded from the packet-sized slice (16 bytes on BLE, 15 on
\* HID) at the head of the bytes received and not yet consumed, and that
\* slice passes the validator of its kind.
C25_DeliveredFromValidSlice ==
    [][Len(delivered') > Len(delivered)
         => /\ Len(delivered') = Len(delivered) + 1
            /\ FromValidSlice(delivered'[Len(delivered')])]_vars

\* C25 witness: with garbage, invalid packets or partial packets among
\* the bytes received, one notification delivered a query record and a
\* status record
C25_Witness ==
    /\ transport = "ble"
    /\ Len(delivered) >= 2
    /\ delivered[1].type = "query"
    /\ delivered[2].type = "status"

\* the frame under test has been through the decoder
Decided == pc \in {"decoded", "rejected"}

\* the first four bytes of the frame are FF FF FF FF
HasSentinel == \A i \in 1..4 : receive_buffer[i] = 255

\* C26: a frame that was accepted was decoded as a Query when its first
\* four bytes are FF FF FF FF and as a Status otherwise; a frame whose
\* bytes validate as a Status is accepted as a Status, and none that was
\* decoded as a Query validates as a Status.
C26_QueryIffSentinel ==
    Decided =>
        /\ pc = "decoded" =>
              hist.rec.kind = (IF HasSentinel THEN "query" ELSE "status")
        /\ hist.rec.kind = "query" =>
              ~StatusValidate(StatusUnpack(receive_buffer))
        /\ StatusValidate(StatusUnpack(receive_buffer)) =>
              (pc = "decoded" /\ hist.rec.kind = "status")

\* C26 witness: a frame that begins FF FF FF FF, with a known mode and a
\* cpm within the limit in the bytes a Status keeps them in, was decoded
\* as a Query
C26_Witness ==
    /\ pc = "decoded"
    /\ HasSentinel
    /\ hist.frame.dead = 1
    /\ hist.frame.conv = 1070
    /\ hist.rec.kind = "query"

\* C27: a status frame is rejected exactly when cps is above 750000, or
\* the 24-bit cpm is above 450000, or the power level is above 5, or the
\* mode is none of 0, 1, 2, 3, 20, 23, or the alarm is alerting without
\* being set, or silenced without alerting.
C27_StatusRejectedIff ==
    (Decided /\ hist.frame.kind = "status") =>
        LET f == hist.frame
        IN (pc = "rejected") <=>
             \/ W32Above(f.cps, 750000)
             \/ f.cpm > 450000
             \/ PowerLevel(f) > 5
             \/ f.mode \notin {0, 1, 2, 3, 20, 23}
             \/ FlagAlerting(f) /\ ~FlagSet(f)
             \/ FlagSilenced(f) /\ ~FlagAlerting(f)

\* C27 witness: a frame at every limit (cps 750000, cpm 450000, power 5,
\* mode 23, the three alarm flags) was accepted
C27_Witness ==
    /\ pc = "decoded"
    /\ hist.frame.kind = "status"
    /\ hist.frame.cps = W32(MAX_CPS)
    /\ hist.frame.cpm = MAX_CPM
    /\ hist.frame.mode = 23
    /\ hist.frame.status = 56 + MAX_POWER
    /\ hist.rec.cpm = MAX_CPM

\* C28: for each of the eight values of the alarm flags of an otherwise
\* valid status frame: alerting without set and silenced without alerting
\* are rejected; an accepted frame reads SILENCED when silenced, else
\* ALERTING when alerting, else SET when set, else DISABLED.
C28_AlarmStates ==
    (Decided /\ hist.frame.kind = "status") =>
        LET f == hist.frame
        IN /\ ((FlagAlerting(f) /\ ~FlagSet(f))
                 \/ (FlagSilenced(f) /\ ~FlagAlerting(f)))
              => pc = "rejected"
           /\ pc = "decoded" =>
                hist.rec.alarm_state =
                   (IF FlagSilenced(f) THEN "SILENCED"
                    ELSE IF FlagAlerting(f) THEN "ALERTING"
                    ELSE IF FlagSet(f) THEN "SET"
                    ELSE "DISABLED")

\* C28 witness: a frame with the three flags set reads SILENCED
C28_Witness ==
    /\ pc = "decoded"
    /\ hist.frame.kind = "status"
    /\ FlagSet(hist.frame)
    /\ FlagAlerting(hist.frame)
    /\ FlagSilenced(hist.frame)
    /\ hist.rec.alarm_state = "SILENCED"

\* the bytes 0A 00 00 00 00 00 00 00 00 00 30 00 00 00 10 42
ExampleStatusFrame ==
    <<10, 0, 0, 0,  0, 0, 0, 0,  0, 0,  48, 0,  0,  0,  16,  66>>

\* C29 (as claimed): the example status frame decodes to cps 10, value 0,
\* mode 0, cpm 48, id 66 and a status byte of zero: power 0, no alarm
\* flag, alarm state DISABLED.
C29_ExampleStatus ==
    (Decided /\ receive_buffer = ExampleStatusFrame) =>
        /\ pc = "decoded"
        /\ hist.rec.kind = "status"
        /\ hist.rec.cps = W32(10)
        /\ hist.rec.value = W32(0)
        /\ hist.rec.mode = 0
        /\ hist.rec.cpm = 48
        /\ hist.rec.id = 66
        /\ hist.rec.power = 0
        /\ ~hist.rec.alarm_set
        /\ hist.rec.alarm_state = "DISABLED"

\* C29 (amended): the example status frame decodes to cps 10, value 0,
\* mode 0, cpm 48, id 66 and a status byte of 0x10: power 0, the alarm
\* set and neither alerting nor silenced, alarm state SET.
C29_ExampleStatusAlarmSet ==
    (Decided /\ receive_buffer = ExampleStatusFrame) =>
        /\ pc = "decoded"
        /\ hist.rec.kind = "status"
        /\ hist.rec.cps = W32(10)
        /\ hist.rec.value = W32(0)
        /\ hist.rec.mode = 0
        /\ hist.rec.cpm = 48
        /\ hist.rec.id = 66
        /\ hist.rec.power = 0
        /\ hist.rec.alarm_set
        /\ ~hist.rec.alarm_alerting
        /\ ~hist.rec.alarm_silenced
        /\ hist.rec.unknown = 0
        /\ hist.rec.alarm_state = "SET"

\* C29 witness: the example frame has been decoded
C29_Witness ==
    /\ pc = "decoded"
    /\ receive_buffer = ExampleStatusFrame
    /\ hist.rec.kind = "status"

\* the bytes FF FF FF FF 2E 04 00 00 67 2B 2E 04 00 00 FF FF
ExampleQueryFrame ==
    <<255, 255, 255, 255,  46, 4,  0, 0,  103, 43,  46, 4,  0, 0, 255, 255>>

\* C30: a query frame is rejected exactly when its alarm is above 235400,
\* or its deadtime reciprocal is 0, or its conversion is below 200 or
\* above 7000; an accepted one reads the little-endian alarm, deadtime
\* reciprocal and conversion the device packed; the example frame decodes
\* to alarm 1070, deadtime reciprocal 11111, conversion 1070.
C30_QueryDecode ==
    (Decided /\ hist.frame.kind = "query") =>
        LET f == hist.frame
        IN /\ (pc = "rejected") <=>
                 \/ f.alarm > 235400
                 \/ f.dead = 0
                 \/ f.conv < 200
                 \/ f.conv > 7000
           /\ pc = "decoded" =>
                 /\ hist.rec.kind = "query"
                 /\ hist.rec.alarm = f.alarm
                 /\ hist.rec.dead = f.dead
                 /\ hist.rec.conv = f.conv
           /\ receive_buffer = ExampleQueryFrame =>
                 /\ pc = "decoded"
                 /\ hist.rec.alarm = 1070
                 /\ hist.rec.dead = 11111
                 /\ hist.rec.conv = 1070

\* C30 witness: the example query frame has been decoded
C30_Witness ==
    /\ pc = "decoded"
    /\ receive_buffer = ExampleQueryFrame
    /\ hist.rec.kind = "query"
    /\ hist.rec.dead = 11111

\* the sum of a sequence of integers
RECURSIVE IntSum(_)
IntSum(xs) == IF xs = <<>> THEN 0 ELSE xs[1] + IntSum(Tail(xs))

\* the last n elements of xs
LastOf(xs, n) == SubSeq(xs, Len(xs) - n + 1, Len(xs))

\* v is what the reducer named function makes of the non-empty window of
\* integers w
ReducedTo(function, w, v) ==
    /\ v.k = "num"
    /\ CASE function = "sum" -> v.num = IntSum(w) * v.den
         [] function = "mean_arithmetic" -> v.num * Len(w) = IntSum(w) * v.den
         [] function = "max" ->
               /\ \E i \in 1..Len(w) : v.num = w[i] * v.den
               /\ \A i \in 1..Len(w) : v.num >= w[i] * v.den
         [] OTHER ->
               /\ \E i \in 1..Len(w) : v.num = w[i] * v.den
               /\ \A i \in 1..Len(w) : v.num <= w[i] * v.den

\* C31: after x1..xM were pushed into a FIR filter of capacity N >= 1 its
\* window holds the last min(N, M) of them in push order, never more than
\* N, and the last iterate returned the reducer applied to that window.
C31_WindowIsLastN ==
    app.kind = "filter" =>
        LET N == app.filter.size
            M == Len(app.trace)
            w == LastOf(app.trace, IF M < N THEN M ELSE N)
        IN /\ Len(app.filter.values) <= N
           /\ app.filter.values = [i \in 1..Len(w) |-> Num(w[i])]
           /\ app.result.op = "iterate" =>
                 ReducedTo(app.filter.function, w, app.result.val)

\* C31 witness: four values went into a filter of capacity 2 that keeps
\* the maximum, and the largest of them has been evicted
C31_Witness ==
    /\ app.kind = "filter"
    /\ app.filter.size = 2
    /\ app.filter.function = "max"
    /\ app.trace = <<3, 1, 1, 2>>
    /\ app.result.op = "iterate"
    /\ app.result.val = Num(2)

\* C32 (as claimed): the value read from a FIR filter that has received
\* nothing is None, whichever of the four reducers it was built with.
C32_EmptyValueIsNone ==
    (app.kind = "filter" /\ app.trace = <<>> /\ app.result.op = "value")
        => app.result.val.k = "None"

\* the cps samples of the records the backend has handled
CpsOf(trace) == [i \in 1..Len(trace) |-> Num(trace[i].cps)]

\* C40 (as claimed): once the log backend has handled a status record,
\* each of the three averaging filters and the maximum and the minimum
\* filter hold the cpm / 60 of the first record as their first value,
\* pushed once, before anything else.
C40_Seeded ==
    (app.kind = "backend" /\ Len(app.trace) >= 1) =>
        LET seed == NumDiv(Num(app.trace[1].cpm), 60)
            n == Len(app.trace)
        IN /\ app.averages[1].values = <<seed>> \o CpsOf(app.trace)
           /\ \A i \in {2, 3} :
                 /\ app.averages[i].value.init = seed
                 /\ app.averages[i].value.mixed = <<seed>> \o CpsOf(app.trace)
           /\ app.maximum.values[1] = seed
           /\ Len(app.maximum.values) = n + 1
           /\ app.minimum.values[1] = seed
           /\ Len(app.minimum.values) = n + 1

\* C33 (as claimed): a pass of the ACTIVE loop of _process takes bytes from
\* the receive buffer only as one whole decoded packet of 16 bytes; a
\* buffer it cannot decode, a trailing part of a packet included, stays as
\* it is for the next chunk to complete.
C33_BytesLeaveAsWholePackets ==
    [][(transport = "ble" /\ pc = "proc" /\ Synchronized(sync_count)) =>
       IF Decode(receive_buffer, last_id).kind \in {"status", "query"}
       THEN receive_buffer' = DropBytes(receive_buffer, PACKET_LEN)
       ELSE receive_buffer' = receive_buffer]_vars

\* the acks among the commands enqueued so far
AcksIn(cmds) == CountOf(cmds, CMD_ACK)

\* C34 (as claimed): the acks enqueued during a receive cycle are as many
\* as the packets decoded in it.  The first item a device sends holds one packet
\* at most, so the cycle that receives it enqueues one ack at most.
C34_AcksEqualDecoded ==
    (transport = "ble" /\ sent = 1)
        => AcksIn(enq) <= AcksIn(startCmds) + 1

\* C35: a receive timeout leaves spin() waiting and sync_count, last_id,
\* the receive buffer and the command buffer as they were; and whenever
\* spin() is left, it is left by an error.
C35_TimeoutKeepsSpinning ==
    [][/\ (Timeout \/ HidTimeout) =>
             /\ pc' \in {"wait", "hwait"}
             /\ hist'.exit = "none"
             /\ UNCHANGED <<sync_count, last_id, receive_buffer,
                            command_buffer>>
       /\ (pc # "idle" /\ pc' = "idle") => hist'.exit # "none"]_vars

\* C35 witness: an ACTIVE session that has delivered records has had a
\* receive timeout and spin() is waiting again
C35_Witness ==
    /\ hist.tmo
    /\ pc \in {"wait", "hwait"}
    /\ hist.exit = "none"
    /\ Synchronized(sync_count)
    /\ last_id # NoneId
    /\ nrec > 0

\* C36 (as claimed): on a HID session the processing of a payload handed
\* to _on_receive always comes to its end, whatever the payload and
\* whether the session is SYNCING or ACTIVE.  (Where it does not, the
\* loop of _synchronize makes pass after pass, each leaving the session
\* as it found it.)
C36_HidHandlerTerminates ==
    (pc \in {"hsync", "hproc"}) ~> (pc \in {"hdone", "idle"})

\* C37: on a BLE session the processing of a chunk handed to _on_receive
\* always comes to its end, spin() waiting for the next notification
\* again: a pass of _synchronize stops on a short buffer, removes a byte
\* or raises sync_count, and a pass of the ACTIVE loop takes 16 bytes or
\* stops.
C37_HandlerTerminates ==
    /\ [][/\ (pc = "sync" /\ ~Synchronized(sync_count)) =>
               \/ pc' = "proc" /\ Len(receive_buffer) < PACKET_LEN
               \/ Len(receive_buffer') = Len(receive_buffer) - 1
               \/ /\ sync_count' = sync_count + 1
                  /\ receive_buffer' = receive_buffer
          /\ (pc = "proc" /\ Synchronized(sync_count)) =>
               \/ pc' = "flush"
               \/ Len(receive_buffer') = Len(receive_buffer) - PACKET_LEN
         ]_vars
    /\ (pc \in {"sync", "proc", "flush"}) ~> (pc = "wait")

\* C37 witness: the handler has returned from a chunk that it decoded
\* once, then failed to decode and cut down byte by byte until it was too
\* short
C37_Witness ==
    /\ pc = "wait"
    /\ sync_count = 0
    /\ Len(receive_buffer) = PACKET_LEN - 1
    /\ CountOf(written, CMD_ACK) = 1

\* a step hands a status record to the client's callback
DeliversStatus ==
    /\ Len(delivered') = Len(delivered) + 1
    /\ delivered'[Len(delivered')].type = "status"

\* the next decode attempt is made by _synchronize and returns a record
SyncingDecode ==
    \/ /\ transport = "ble" /\ pc = "sync" /\ ~Synchronized(sync_count)
       /\ Decode(receive_buffer, last_id).kind \in {"status", "query"}
    \/ /\ transport = "hid" /\ pc = "hsync" /\ ~Synchronized(sync_count)
       /\ HidDecode(receive_buffer, last_id).kind = "status"

\* C38: on both transports a status record reaches the callback only in a
\* session that is ACTIVE; what _synchronize decodes is acked (on HID: if
\* the write succeeds) and never delivered.
C38_DeliveredOnlyWhenActive ==
    [][/\ DeliversStatus => Synchronized(sync_count)
       /\ SyncingDecode =>
             /\ delivered' = delivered
             /\ nrec' = nrec
             /\ transport = "ble" => AcksIn(enq') = AcksIn(enq) + 1
             /\ (transport = "hid" /\ ~hist'.wfail)
                   => AcksIn(written') = AcksIn(written) + 1]_vars

\* C38 witness: a HID session has read six payloads; the five that made it
\* ACTIVE were acked only, the sixth is the one record it has delivered
C38_Witness ==
    /\ transport = "hid" /\ pc = "hwait"
    /\ sent = SYNC_TARGET + 1
    /\ Synchronized(sync_count)
    /\ nrec = 1
    /\ delivered = << [type |-> "status", id |-> last_id] >>

\* C39: every connect() that succeeds leaves the session with sync_count
\* 0, no last id and empty buffers, whatever the session held before: the
\* rest of an earlier session, or a query enqueued before connect().
C39_ConnectStartsClean ==
    [][(Connect \/ HidConnect) =>
          /\ sync_count' = 0
          /\ last_id' = NoneId
          /\ receive_buffer' = <<>>
          /\ command_buffer' = <<>>
          /\ poll_buffer' = <<>>
          /\ peripheral']_vars

\* C39 witness: a session that had delivered records was connected again
\* and is clean, spin() not yet called
C39_Witness ==
    /\ hist.reconn /\ ~hist.connFailed /\ hist.dcalls = 0
    /\ hist.exit = "none"
    /\ pc = "idle" /\ peripheral
    /\ sync_count = 0 /\ last_id = NoneId
    /\ receive_buffer = <<>> /\ command_buffer = <<>>

====
